---- MODULE Spec2Model ----
(***************************************************************************)
(* Cache policies of the satellite CDN simulation (advanced_caching.py):   *)
(* LRUCache, LFUCache, FIFOCache and AdaptiveCache.  One cache object      *)
(* (`policy`) of one class (`kind`) is driven by arbitrary get / put /     *)
(* contains calls.  time.time() is a logical clock that advances by one    *)
(* on every call that reads it.                                            *)
(*                                                                         *)
(* The single satellite node of ntn_network_simulation.py (`node`) with    *)
(* its own LRUCache and its NetworkMetrics (`metrics`) is driven by        *)
(* request_content calls.  Simulated times are integer milliseconds.       *)
(***************************************************************************)
EXTENDS Integers, Sequences, FiniteSets, TLC

\* ---------------------------------------------------------------- bounds
NumKeys == 3
MaxCapacity == 2
MaxClock == 4

KeyNames == <<"A", "B", "C", "D", "E", "F">>
Keys == {KeyNames[i] : i \in 1..NumKeys}

\* The content is opaque to the caches.  The callers put one content per
\* id, except for the first id, which they put in two versions.
Contents == {"c1", "c2"}
ContentsOf(content_id) ==
  IF content_id = KeyNames[1] THEN Contents ELSE {"c1"}
Kinds == {"LRU", "LFU", "FIFO", "ADAPTIVE"}

\* Python's None, as a return value and as "no exception"
None == "None"

\* kind, policy : the class and the state of the cache object under test
\* clock        : the latest value time.time() returned
\* last         : the latest call made on the object
\* touch        : history of the calls: for every cached id, the time of the
\*                put that inserted it and of the latest get hit or put of it
\* calls        : number of get / put / contains calls made on the object
\*                (counted by the runs that start near a window boundary)
\* node         : the SatelliteNode object under test
\* metrics      : the NetworkMetrics object under test
\* constellation: the SatelliteConstellation object under test
VARIABLES kind, policy, clock, last, touch, calls, node, metrics,
          constellation, simulation_state, collaboration_manager, db

\* the state of the web application app.py: its dictionary
\* simulation_state, its CollaborationManager and the rows of its database
application == <<simulation_state, collaboration_manager, db>>

vars ==
  <<kind, policy, clock, last, touch, calls, node, metrics, constellation,
    application>>

\* no web application: the classes are driven directly
NoApplication ==
  /\ simulation_state = "None"
  /\ collaboration_manager = "None"
  /\ db = "None"

\* ------------------------------------------------------------- CacheItem
CacheItem(content_id, content, access_count, last_access_time, insert_time) ==
  [content_id |-> content_id, content |-> content,
   access_count |-> access_count,
   last_access_time |-> last_access_time, insert_time |-> insert_time]

\* ------------------------------------- OrderedDict[str, CacheItem] as a
\* sequence of items, first element = first key of the dictionary
od_keys(od) == {od[i].content_id : i \in 1..Len(od)}

od_index(od, content_id) ==
  CHOOSE i \in 1..Len(od) : od[i].content_id = content_id

od_getitem(od, content_id) == od[od_index(od, content_id)]

od_without(od, content_id) ==
  SelectSeq(od, LAMBDA it : it.content_id # content_id)

\* od[key] = item : an existing key keeps its position, a new key goes last
od_setitem(od, item) ==
  IF item.content_id \in od_keys(od)
  THEN [od EXCEPT ![od_index(od, item.content_id)] = item]
  ELSE Append(od, item)

\* the item is mutated in place, then od.move_to_end(key)
od_move_to_end(od, item) == Append(od_without(od, item.content_id), item)

\* result of a call: the object afterwards, the returned value, the entry
\* removed by popitem (<<>> when none) and the exception raised (None when
\* the call returned)
Result(self, ret, victim, exc) ==
  [self |-> self, ret |-> ret, victim |-> victim, exc |-> exc]

\* ---------------------------------------------------------------- LRUCache
LRUCache_init(capacity) ==
  [capacity |-> capacity, cache |-> <<>>, hits |-> 0, misses |-> 0,
   evictions |-> 0]

LRUCache_get_no_move(self, content_id, now) ==
  IF content_id \in od_keys(self.cache)
  THEN LET item == [od_getitem(self.cache, content_id)
                      EXCEPT !.last_access_time = now]
       IN Result([self EXCEPT !.cache = od_setitem(self.cache, item),
                              !.hits = @ + 1],
                 item.content, <<>>, None)
  ELSE Result([self EXCEPT !.misses = @ + 1], None, <<>>, None)

LRUCache_get(self, content_id, now) ==
  IF content_id \in od_keys(self.cache)
  THEN LET item == [od_getitem(self.cache, content_id)
                      EXCEPT !.last_access_time = now]
       IN Result([self EXCEPT !.cache = od_move_to_end(self.cache, item),
                              !.hits = @ + 1],
                 item.content, <<>>, None)
  ELSE Result([self EXCEPT !.misses = @ + 1], None, <<>>, None)

LRUCache_put_off_by_one(self, content_id, content, now) ==
  IF content_id \in od_keys(self.cache)
  THEN \* the stored content is not assigned on this path
       LET item == [od_getitem(self.cache, content_id)
                      EXCEPT !.last_access_time = now]
       IN Result([self EXCEPT !.cache = od_move_to_end(self.cache, item)],
                 None, <<>>, None)
  ELSE LET item == CacheItem(content_id, content, 0, now, now) IN
       IF Len(self.cache) > self.capacity
       THEN IF self.cache = <<>>
            THEN Result(self, None, <<>>, "KeyError")
            ELSE Result([self EXCEPT
                           !.cache = Append(Tail(self.cache), item),
                           !.evictions = @ + 1],
                        None, <<Head(self.cache)>>, None)
       ELSE Result([self EXCEPT !.cache = Append(self.cache, item)],
                   None, <<>>, None)

LRUCache_put(self, content_id, content, now) ==
  IF content_id \in od_keys(self.cache)
  THEN \* the stored content is not assigned on this path
       LET item == [od_getitem(self.cache, content_id)
                      EXCEPT !.last_access_time = now]
       IN Result([self EXCEPT !.cache = od_move_to_end(self.cache, item)],
                 None, <<>>, None)
  ELSE LET item == CacheItem(content_id, content, 0, now, now) IN
       IF Len(self.cache) >= self.capacity
       THEN IF self.cache = <<>>
            THEN \* popitem on an empty OrderedDict
                 Result(self, None, <<>>, "KeyError")
            ELSE Result([self EXCEPT
                           !.cache = Append(Tail(self.cache), item),
                           !.evictions = @ + 1],
                        None, <<Head(self.cache)>>, None)
       ELSE Result([self EXCEPT !.cache = Append(self.cache, item)],
                   None, <<>>, None)

LRUCache_contains(self, content_id) == content_id \in od_keys(self.cache)

\* --------------------------------------------------------------- FIFOCache
FIFOCache_init(capacity) ==
  [capacity |-> capacity, cache |-> <<>>, hits |-> 0, misses |-> 0,
   evictions |-> 0]

FIFOCache_get_move(self, content_id, now) ==
  IF content_id \in od_keys(self.cache)
  THEN LET old == od_getitem(self.cache, content_id)
           item == [old EXCEPT !.last_access_time = now,
                               !.access_count = @ + 1]
       IN Result([self EXCEPT !.cache = od_move_to_end(self.cache, item),
                              !.hits = @ + 1],
                 item.content, <<>>, None)
  ELSE Result([self EXCEPT !.misses = @ + 1], None, <<>>, None)

FIFOCache_get(self, content_id, now) ==
  IF content_id \in od_keys(self.cache)
  THEN LET old == od_getitem(self.cache, content_id)
           item == [old EXCEPT !.last_access_time = now,
                               !.access_count = @ + 1]
       IN Result([self EXCEPT !.cache = od_setitem(self.cache, item),
                              !.hits = @ + 1],
                 item.content, <<>>, None)
  ELSE Result([self EXCEPT !.misses = @ + 1], None, <<>>, None)

FIFOCache_put_uncounted(self, content_id, content, now) ==
  IF content_id \notin od_keys(self.cache)
  THEN LET item == CacheItem(content_id, content, 0, now, now) IN
       IF Len(self.cache) >= self.capacity
       THEN IF self.cache = <<>>
            THEN Result(self, None, <<>>, "KeyError")
            ELSE Result([self EXCEPT
                           !.cache = Append(Tail(self.cache), item)],
                        None, <<Head(self.cache)>>, None)
       ELSE Result([self EXCEPT !.cache = Append(self.cache, item)],
                   None, <<>>, None)
  ELSE LET item == [od_getitem(self.cache, content_id)
                      EXCEPT !.content = content,
                             !.last_access_time = now]
       IN Result([self EXCEPT !.cache = od_setitem(self.cache, item)],
                 None, <<>>, None)

FIFOCache_put(self, content_id, content, now) ==
  IF content_id \notin od_keys(self.cache)
  THEN LET item == CacheItem(content_id, content, 0, now, now) IN
       IF Len(self.cache) >= self.capacity
       THEN IF self.cache = <<>>
            THEN \* popitem on an empty OrderedDict
                 Result(self, None, <<>>, "KeyError")
            ELSE Result([self EXCEPT
                           !.cache = Append(Tail(self.cache), item),
                           !.evictions = @ + 1],
                        None, <<Head(self.cache)>>, None)
       ELSE Result([self EXCEPT !.cache = Append(self.cache, item)],
                   None, <<>>, None)
  ELSE LET item == [od_getitem(self.cache, content_id)
                      EXCEPT !.content = content,
                             !.last_access_time = now]
       IN Result([self EXCEPT !.cache = od_setitem(self.cache, item)],
                 None, <<>>, None)

FIFOCache_contains(self, content_id) == content_id \in od_keys(self.cache)

\* ---------------------------------------------------------------- LFUCache
\* self.cache is a plain dict: a function from the cached ids to their
\* items.  self.frequency_map is a defaultdict of OrderedDicts: a function
\* from the frequencies that have a bucket to the bucket, a sequence of ids
\* in the bucket's order (the bucket's values are the very items of
\* self.cache).
EmptyDict == [k \in {} |-> 0]

dict_set(d, k, v) == [x \in DOMAIN d \cup {k} |-> IF x = k THEN v ELSE d[x]]

dict_del(d, k) == [x \in DOMAIN d \ {k} |-> d[x]]

bucket_keys(b) == {b[i] : i \in 1..Len(b)}

bucket_del(b, content_id) == SelectSeq(b, LAMBDA x : x # content_id)

\* self.frequency_map[freq][content_id] = item
fm_setitem(fm, freq, content_id) ==
  LET b == IF freq \in DOMAIN fm THEN fm[freq] ELSE <<>>
  IN dict_set(fm, freq,
              IF content_id \in bucket_keys(b) THEN b
              ELSE Append(b, content_id))

LFUCache_init(capacity) ==
  [capacity |-> capacity, cache |-> EmptyDict, frequency_map |-> EmptyDict,
   min_frequency |-> 0, hits |-> 0, misses |-> 0, evictions |-> 0]

LFUCache_get_miss_resets(self, content_id, now) ==
  IF content_id \notin DOMAIN self.cache
  THEN Result([self EXCEPT !.misses = @ + 1, !.min_frequency = 0],
              None, <<>>, None)
  ELSE LET old == self.cache[content_id]
           old_freq == old.access_count
           item == [old EXCEPT !.access_count = @ + 1,
                               !.last_access_time = now]
           fm0 == self.frequency_map
           removed == /\ old_freq \in DOMAIN fm0
                      /\ content_id \in bucket_keys(fm0[old_freq])
           fm1 == IF removed
                  THEN [fm0 EXCEPT ![old_freq] = bucket_del(@, content_id)]
                  ELSE fm0
           min1 == IF /\ removed
                      /\ fm1[old_freq] = <<>>
                      /\ old_freq = self.min_frequency
                   THEN self.min_frequency + 1
                   ELSE self.min_frequency
       IN Result([self EXCEPT
                    !.cache = dict_set(self.cache, content_id, item),
                    !.frequency_map =
                        fm_setitem(fm1, item.access_count, content_id),
                    !.min_frequency = min1,
                    !.hits = @ + 1],
                 item.content, <<>>, None)

LFUCache_get(self, content_id, now) ==
  IF content_id \notin DOMAIN self.cache
  THEN Result([self EXCEPT !.misses = @ + 1], None, <<>>, None)
  ELSE LET old == self.cache[content_id]
           old_freq == old.access_count
           item == [old EXCEPT !.access_count = @ + 1,
                               !.last_access_time = now]
           fm0 == self.frequency_map
           removed == /\ old_freq \in DOMAIN fm0
                      /\ content_id \in bucket_keys(fm0[old_freq])
           fm1 == IF removed
                  THEN [fm0 EXCEPT ![old_freq] = bucket_del(@, content_id)]
                  ELSE fm0
           min1 == IF /\ removed
                      /\ fm1[old_freq] = <<>>
                      /\ old_freq = self.min_frequency
                   THEN self.min_frequency + 1
                   ELSE self.min_frequency
       IN Result([self EXCEPT
                    !.cache = dict_set(self.cache, content_id, item),
                    !.frequency_map =
                        fm_setitem(fm1, item.access_count, content_id),
                    !.min_frequency = min1,
                    !.hits = @ + 1],
                 item.content, <<>>, None)

\* while self.min_frequency not in self.frequency_map
\*       or not self.frequency_map[self.min_frequency]:
\*     self.min_frequency += 1
\* The loop ends iff some bucket at or above min_frequency is not empty.
lfu_scan_ends(fm, m) == \E f \in DOMAIN fm : f >= m /\ fm[f] # <<>>

RECURSIVE lfu_scan(_, _)
lfu_scan(fm, m) ==
  IF m \notin DOMAIN fm \/ fm[m] = <<>> THEN lfu_scan(fm, m + 1) ELSE m

\* lines 146-153 of put: find the minimum non-empty bucket, pop its first
\* id, delete it from self.cache, count the eviction
lfu_evict_pops_last(self) ==
  IF ~lfu_scan_ends(self.frequency_map, self.min_frequency)
  THEN Result(self, None, <<>>, "NonTermination")
  ELSE LET m == lfu_scan(self.frequency_map, self.min_frequency)
           b == self.frequency_map[m]
           lfu_item_id == b[Len(b)]
           popped == [self EXCEPT
                        !.min_frequency = m,
                        !.frequency_map[m] = bucket_del(b, lfu_item_id)]
       IN IF lfu_item_id \notin DOMAIN self.cache
          THEN Result(popped, None, <<>>, "KeyError")
          ELSE Result([popped EXCEPT
                         !.cache = dict_del(self.cache, lfu_item_id),
                         !.evictions = @ + 1],
                      None, <<self.cache[lfu_item_id]>>, None)

lfu_evict(self) ==
  IF ~lfu_scan_ends(self.frequency_map, self.min_frequency)
  THEN \* the scan for a non-empty bucket never ends
       Result(self, None, <<>>, "NonTermination")
  ELSE LET m == lfu_scan(self.frequency_map, self.min_frequency)
           b == self.frequency_map[m]
           lfu_item_id == Head(b)
           popped == [self EXCEPT
                        !.min_frequency = m,
                        !.frequency_map[m] = bucket_del(b, lfu_item_id)]
       IN IF lfu_item_id \notin DOMAIN self.cache
          THEN Result(popped, None, <<>>, "KeyError")
          ELSE Result([popped EXCEPT
                         !.cache = dict_del(self.cache, lfu_item_id),
                         !.evictions = @ + 1],
                      None, <<self.cache[lfu_item_id]>>, None)

\* lines 156-162: the CacheItem put builds
lfu_new_item_default_count(content_id, content, now) ==
  CacheItem(content_id, content, 0, now, now)

lfu_new_item(content_id, content, now) ==
  CacheItem(content_id, content, 1, now, now)

\* lines 163-165
lfu_insert(self, item) ==
  [self EXCEPT !.cache = dict_set(self.cache, item.content_id, item),
               !.frequency_map =
                   fm_setitem(self.frequency_map, 1, item.content_id),
               !.min_frequency = 1]

LFUCache_put(self, content_id, content, now) ==
  IF content_id \in DOMAIN self.cache
  THEN \* self.get(content_id), then the content is replaced
       LET g == LFUCache_get(self, content_id, now).self
       IN Result([g EXCEPT !.cache[content_id].content = content],
                 None, <<>>, None)
  ELSE LET item == lfu_new_item(content_id, content, now) IN
       IF Cardinality(DOMAIN self.cache) >= self.capacity
       THEN LET e == lfu_evict(self)
            IN IF e.exc # None THEN e
               ELSE Result(lfu_insert(e.self, item), None, e.victim, None)
       ELSE Result(lfu_insert(self, item), None, <<>>, None)

LFUCache_contains(self, content_id) == content_id \in DOMAIN self.cache

\* ------------------------------------------------------------ AdaptiveCache
Strategies == <<"LRU", "LFU", "FIFO">>
evaluation_window == 100

\* `evaluations` is not an attribute of the object: it counts the calls of
\* _evaluate_and_switch, which leave no other trace when they do not switch
AdaptiveCache_init(capacity) ==
  [capacity |-> capacity,
   lru_cache |-> LRUCache_init(capacity),
   lfu_cache |-> LFUCache_init(capacity),
   fifo_cache |-> FIFOCache_init(capacity),
   current_strategy |-> "LRU",
   strategy_history |-> <<>>,
   evaluation_window |-> evaluation_window,
   request_count |-> 0,
   evaluations |-> 0,
   strategy_performance |->
     [s \in {"LRU", "LFU", "FIFO"} |-> [hits |-> 0, misses |-> 0]]]

\* `if result:` on the value a constituent's get returned
Truthy(result) == result \notin {None, ""}

\* a hit rate hits / total * 100 is kept as the pair <<hits, total>>;
\* 0.0 is <<0, 1>>
rate_gt(a, b) == a[1] * b[2] > b[1] * a[2]

\* the loop of _evaluate_and_switch over ['LRU', 'LFU', 'FIFO']
RECURSIVE eval_loop(_, _, _)
eval_loop(perf, i, acc) ==
  IF i > Len(Strategies) THEN acc
  ELSE LET strategy == Strategies[i]
           total == perf[strategy].hits + perf[strategy].misses
           hit_rate == <<perf[strategy].hits, total>>
       IN eval_loop(perf, i + 1,
            IF total > 0 /\ rate_gt(hit_rate, acc.best_hit_rate)
            THEN [best_strategy |-> strategy, best_hit_rate |-> hit_rate]
            ELSE acc)

AdaptiveCache_evaluate_keeps_counters(self) ==
  LET best == eval_loop(self.strategy_performance, 1,
                        [best_strategy |-> self.current_strategy,
                         best_hit_rate |-> <<0, 1>>])
  IN IF best.best_strategy # self.current_strategy
     THEN [self EXCEPT
             !.evaluations = @ + 1,
             !.strategy_history =
                 Append(@, [from |-> self.current_strategy,
                            to |-> best.best_strategy,
                            hit_rate |-> best.best_hit_rate,
                            request_count |-> self.request_count]),
             !.current_strategy = best.best_strategy]
     ELSE [self EXCEPT !.evaluations = @ + 1]

AdaptiveCache_evaluate_resets_always(self) ==
  LET best == eval_loop(self.strategy_performance, 1,
                        [best_strategy |-> self.current_strategy,
                         best_hit_rate |-> <<0, 1>>])
  IN IF best.best_strategy # self.current_strategy
     THEN [self EXCEPT
             !.evaluations = @ + 1,
             !.strategy_history =
                 Append(@, [from |-> self.current_strategy,
                            to |-> best.best_strategy,
                            hit_rate |-> best.best_hit_rate,
                            request_count |-> self.request_count]),
             !.current_strategy = best.best_strategy,
             !.strategy_performance =
                 [s \in DOMAIN @ |-> [hits |-> 0, misses |-> 0]]]
     ELSE [self EXCEPT
             !.evaluations = @ + 1,
             !.strategy_performance =
                 [s \in DOMAIN @ |-> [hits |-> 0, misses |-> 0]]]

AdaptiveCache_evaluate_and_switch(self) ==
  LET best == eval_loop(self.strategy_performance, 1,
                        [best_strategy |-> self.current_strategy,
                         best_hit_rate |-> <<0, 1>>])
  IN IF best.best_strategy # self.current_strategy
     THEN [self EXCEPT
             !.evaluations = @ + 1,
             !.strategy_history =
                 Append(@, [from |-> self.current_strategy,
                            to |-> best.best_strategy,
                            hit_rate |-> best.best_hit_rate,
                            request_count |-> self.request_count]),
             !.current_strategy = best.best_strategy,
             !.strategy_performance =
                 [s \in DOMAIN @ |-> [hits |-> 0, misses |-> 0]]]
     ELSE [self EXCEPT !.evaluations = @ + 1]

AdaptiveCache_get_tracks_lfu(self, content_id, now) ==
  LET cs == self.current_strategy
      r == CASE cs = "LRU" -> LRUCache_get(self.lru_cache, content_id, now)
             [] cs = "LFU" -> LFUCache_get(self.lfu_cache, content_id, now)
             [] OTHER -> FIFOCache_get(self.fifo_cache, content_id, now)
      routed == CASE cs = "LRU" -> [self EXCEPT !.lru_cache = r.self]
                  [] cs = "LFU" -> [self EXCEPT !.lfu_cache = r.self]
                  [] OTHER -> [self EXCEPT !.fifo_cache = r.self]
      tracked == CASE cs = "LRU" -> "LFU" [] cs = "LFU" -> "LFU"
                   [] OTHER -> "FIFO"
      counted == [routed EXCEPT
                    !.request_count = @ + 1,
                    !.strategy_performance[tracked] =
                        IF Truthy(r.ret) THEN [@ EXCEPT !.hits = @ + 1]
                        ELSE [@ EXCEPT !.misses = @ + 1]]
  IN Result(IF counted.request_count % counted.evaluation_window = 0
            THEN AdaptiveCache_evaluate_and_switch(counted)
            ELSE counted,
            r.ret, <<>>, None)

AdaptiveCache_get_checks_before_counting(self, content_id, now) ==
  LET cs == self.current_strategy
      r == CASE cs = "LRU" -> LRUCache_get(self.lru_cache, content_id, now)
             [] cs = "LFU" -> LFUCache_get(self.lfu_cache, content_id, now)
             [] OTHER -> FIFOCache_get(self.fifo_cache, content_id, now)
      routed == CASE cs = "LRU" -> [self EXCEPT !.lru_cache = r.self]
                  [] cs = "LFU" -> [self EXCEPT !.lfu_cache = r.self]
                  [] OTHER -> [self EXCEPT !.fifo_cache = r.self]
      tracked == CASE cs = "LRU" -> "LRU" [] cs = "LFU" -> "LFU"
                   [] OTHER -> "FIFO"
      counted == [routed EXCEPT
                    !.request_count = @ + 1,
                    !.strategy_performance[tracked] =
                        IF Truthy(r.ret) THEN [@ EXCEPT !.hits = @ + 1]
                        ELSE [@ EXCEPT !.misses = @ + 1]]
  IN Result(IF self.request_count % self.evaluation_window = 0
            THEN AdaptiveCache_evaluate_and_switch(counted)
            ELSE counted,
            r.ret, <<>>, None)

AdaptiveCache_get(self, content_id, now) ==
  LET cs == self.current_strategy
      r == CASE cs = "LRU" -> LRUCache_get(self.lru_cache, content_id, now)
             [] cs = "LFU" -> LFUCache_get(self.lfu_cache, content_id, now)
             [] OTHER -> FIFOCache_get(self.fifo_cache, content_id, now)
      routed == CASE cs = "LRU" -> [self EXCEPT !.lru_cache = r.self]
                  [] cs = "LFU" -> [self EXCEPT !.lfu_cache = r.self]
                  [] OTHER -> [self EXCEPT !.fifo_cache = r.self]
      tracked == CASE cs = "LRU" -> "LRU" [] cs = "LFU" -> "LFU"
                   [] OTHER -> "FIFO"
      counted == [routed EXCEPT
                    !.request_count = @ + 1,
                    !.strategy_performance[tracked] =
                        IF Truthy(r.ret) THEN [@ EXCEPT !.hits = @ + 1]
                        ELSE [@ EXCEPT !.misses = @ + 1]]
  IN Result(IF counted.request_count % counted.evaluation_window = 0
            THEN AdaptiveCache_evaluate_and_switch(counted)
            ELSE counted,
            r.ret, <<>>, None)

AdaptiveCache_put_writes_all(self, content_id, content, now) ==
  LET r1 == LRUCache_put(self.lru_cache, content_id, content, now)
      r2 == LFUCache_put(self.lfu_cache, content_id, content, now)
      r3 == FIFOCache_put(self.fifo_cache, content_id, content, now)
      cs == self.current_strategy
      r == CASE cs = "LRU" -> r1 [] cs = "LFU" -> r2 [] OTHER -> r3
  IN Result([self EXCEPT !.lru_cache = r1.self, !.lfu_cache = r2.self,
                         !.fifo_cache = r3.self],
            None, r.victim, r.exc)

AdaptiveCache_put(self, content_id, content, now) ==
  LET cs == self.current_strategy
      r == CASE cs = "LRU" ->
                  LRUCache_put(self.lru_cache, content_id, content, now)
             [] cs = "LFU" ->
                  LFUCache_put(self.lfu_cache, content_id, content, now)
             [] OTHER ->
                  FIFOCache_put(self.fifo_cache, content_id, content, now)
  IN Result(CASE cs = "LRU" -> [self EXCEPT !.lru_cache = r.self]
              [] cs = "LFU" -> [self EXCEPT !.lfu_cache = r.self]
              [] OTHER -> [self EXCEPT !.fifo_cache = r.self],
            None, r.victim, r.exc)

\* contains returns a bool and assigns nothing
AdaptiveCache_contains(self, content_id) ==
  CASE self.current_strategy = "LRU" ->
         LRUCache_contains(self.lru_cache, content_id)
    [] self.current_strategy = "LFU" ->
         LFUCache_contains(self.lfu_cache, content_id)
    [] OTHER -> FIFOCache_contains(self.fifo_cache, content_id)

\* ------------------------------------------------- the object under test
\* construction, and the method call resolved by the object's class
construct(k, capacity) ==
  CASE k = "LRU" -> LRUCache_init(capacity)
    [] k = "LFU" -> LFUCache_init(capacity)
    [] k = "FIFO" -> FIFOCache_init(capacity)
    [] OTHER -> AdaptiveCache_init(capacity)

call_get(k, self, content_id, now) ==
  CASE k = "LRU" -> LRUCache_get(self, content_id, now)
    [] k = "LFU" -> LFUCache_get(self, content_id, now)
    [] k = "FIFO" -> FIFOCache_get(self, content_id, now)
    [] OTHER -> AdaptiveCache_get(self, content_id, now)

call_put(k, self, content_id, content, now) ==
  CASE k = "LRU" -> LRUCache_put(self, content_id, content, now)
    [] k = "LFU" -> LFUCache_put(self, content_id, content, now)
    [] k = "FIFO" -> FIFOCache_put(self, content_id, content, now)
    [] OTHER -> AdaptiveCache_put(self, content_id, content, now)

call_contains(k, self, content_id) ==
  CASE k = "LRU" -> LRUCache_contains(self, content_id)
    [] k = "LFU" -> LFUCache_contains(self, content_id)
    [] k = "FIFO" -> FIFOCache_contains(self, content_id)
    [] OTHER -> AdaptiveCache_contains(self, content_id)

contains_after_counting(k, self, content_id) ==
  IF k = "ADAPTIVE" THEN [self EXCEPT !.request_count = @ + 1] ELSE self

\* no contains method assigns anything: the object after the call is the
\* object before it
contains_after(k, self, content_id) == self

\* `last` records the latest call: its name and arguments, whether the id
\* was cached when it was made, what it returned, the entry it evicted and
\* the exception it raised
Call(op, content_id, content, present, r) ==
  [op |-> op, content_id |-> content_id, content |-> content,
   present |-> present, ret |-> r.ret, victim |-> r.victim, exc |-> r.exc]

\* the ids the object answers contains(id) = True for
cached(k, self) == {id \in Keys : call_contains(k, self, id)}

Touched(present, content_id, now, after, inserts) ==
  LET t == IF present THEN [touch EXCEPT ![content_id].touched = now]
           ELSE IF inserts
           THEN dict_set(touch, content_id,
                         [inserted |-> now, touched |-> now])
           ELSE touch
  IN [id \in DOMAIN t \cap after |-> t[id]]

Init ==
  /\ kind \in Kinds
  /\ \E capacity \in 0..MaxCapacity : policy = construct(kind, capacity)
  /\ clock = 0
  /\ last = Call("init", None, None, FALSE, Result(None, None, <<>>, None))
  /\ touch = EmptyDict
  /\ calls = 0
  /\ node = None
  /\ metrics = None
  /\ constellation = None
  /\ NoApplication

\* a call that never returns is the last call of the run
Running == last.exc # "NonTermination"

\* one get call, whatever the run counts
get_step(content_id) ==
  /\ Running
  /\ clock < MaxClock
  /\ LET r == call_get(kind, policy, content_id, clock + 1)
         present == call_contains(kind, policy, content_id)
     IN /\ policy' = r.self
        /\ last' = Call("get", content_id, None, present, r)
        /\ touch' = Touched(present, content_id, clock + 1,
                            cached(kind, r.self), FALSE)
  /\ clock' = clock + 1
  /\ UNCHANGED <<application, kind, node, metrics, constellation>>

Get(content_id) == get_step(content_id) /\ UNCHANGED calls

\* one put call, whatever the run counts
put_step(content_id, content) ==
  /\ Running
  /\ clock < MaxClock
  /\ LET r == call_put(kind, policy, content_id, content, clock + 1)
         present == call_contains(kind, policy, content_id)
     IN /\ policy' = r.self
        /\ last' = Call("put", content_id, content, present, r)
        /\ touch' = Touched(present, content_id, clock + 1,
                            cached(kind, r.self), TRUE)
  /\ clock' = clock + 1
  /\ UNCHANGED <<application, kind, node, metrics, constellation>>

Put(content_id, content) == put_step(content_id, content) /\ UNCHANGED calls

\* one contains call, whatever the run counts
contains_step(content_id) ==
  /\ Running
  /\ LET b == call_contains(kind, policy, content_id)
     IN /\ policy' = contains_after(kind, policy, content_id)
        /\ last' = Call("contains", content_id, None, b,
                        Result(policy, b, <<>>, None))
  /\ UNCHANGED <<application, kind, clock, touch, node, metrics,
               constellation>>

Contains(content_id) == contains_step(content_id) /\ UNCHANGED calls

Next ==
  \/ \E content_id \in Keys : Get(content_id)
  \/ \E content_id \in Keys :
       \E content \in ContentsOf(content_id) : Put(content_id, content)
  \/ \E content_id \in Keys : Contains(content_id)

Spec == Init /\ [][Next]_vars

\* ------------------------------------------------------------- properties
PlainKinds == {"LRU", "LFU", "FIFO"}

\* number of cached entries of an LRUCache, LFUCache or FIFOCache
size(k, self) ==
  IF k = "LFU" THEN Cardinality(DOMAIN self.cache) ELSE Len(self.cache)

\* the entry stored under a cached id
entry(k, self, content_id) ==
  IF k = "LFU" THEN self.cache[content_id]
  ELSE od_getitem(self.cache, content_id)

\* the ids a step removed from the cache
removed == cached(kind, policy) \ cached(kind, policy')

\* C1: LRUCache, LFUCache and FIFOCache built with capacity C >= 1 never
\* hold more than C entries, whatever get, put and contains calls were made.
C1_SizeAtMostCapacity ==
  (kind \in PlainKinds /\ policy.capacity >= 1)
    => size(kind, policy) <= policy.capacity

C1_Witness ==
  /\ kind = "LFU"
  /\ policy.capacity >= 2
  /\ last.op = "put"
  /\ last.victim # <<>>
  /\ size(kind, policy) = policy.capacity

\* C2: a put of an absent id into a full cache removes exactly one entry,
\* adds 1 to evictions and leaves the id cached; every other put removes
\* nothing and leaves evictions alone (LRU, LFU, FIFO, capacity >= 1).
C2_PutEvictsExactlyOne ==
  [][(last'.op = "put" /\ kind \in PlainKinds /\ policy.capacity >= 1) =>
       IF /\ last'.content_id \notin cached(kind, policy)
          /\ size(kind, policy) = policy.capacity
       THEN /\ Cardinality(removed) = 1
            /\ policy'.evictions = policy.evictions + 1
            /\ cached(kind, policy') =
                 (cached(kind, policy) \ removed) \cup {last'.content_id}
       ELSE /\ removed = {}
            /\ policy'.evictions = policy.evictions]_vars

C2_Witness ==
  /\ kind = "FIFO"
  /\ last.op = "put"
  /\ last.victim # <<>>
  /\ policy.evictions = 2
  /\ last.content_id \in cached(kind, policy)

\* C3: when an LRUCache put evicts, the victim is the cached entry whose
\* latest touch (its insertion, a get hit, a put of the cached key) is the
\* oldest of all cached entries.
C3_LRUVictimLeastRecentlyTouched ==
  [][(kind = "LRU" /\ last'.op = "put" /\ removed # {}) =>
       \E v \in cached(kind, policy) :
         /\ removed = {v}
         /\ \A o \in cached(kind, policy) \ {v} :
              touch[v].touched < touch[o].touched]_vars

\* an eviction whose victim was inserted after an entry that stays cached
C3_Witness ==
  /\ kind = "LRU"
  /\ last.op = "put"
  /\ last.victim # <<>>
  /\ \E o \in DOMAIN touch :
       touch[o].inserted < last.victim[1].insert_time

\* C4: when a FIFOCache put evicts, the victim is the entry inserted
\* earliest, whatever get hits and puts of cached keys came in between; a
\* get and a put of a cached key leave the order of the entries unchanged.
fifo_order(self) == [i \in 1..Len(self.cache) |-> self.cache[i].content_id]

C4_FIFOVictimInsertedFirst ==
  [][(kind = "FIFO" /\ last'.op \in {"get", "put"}) =>
       /\ removed # {} =>
            \E v \in cached(kind, policy) :
              /\ removed = {v}
              /\ \A o \in cached(kind, policy) \ {v} :
                   touch[v].inserted < touch[o].inserted
       /\ (last'.op = "get" \/ last'.present) =>
            fifo_order(policy') = fifo_order(policy)]_vars

\* the victim had been read and rewritten after a later entry was inserted
C4_Witness ==
  /\ kind = "FIFO"
  /\ last.op = "put"
  /\ last.victim # <<>>
  /\ last.victim[1].access_count > 0
  /\ \E o \in DOMAIN touch :
       /\ o # last.content_id
       /\ touch[o].inserted < last.victim[1].last_access_time
       /\ touch[o].touched = touch[o].inserted

\* C5: when an LFUCache put evicts, the victim has the lowest access count
\* of all cached entries, and is the least recently touched of the entries
\* that have that count.
C5_LFUVictimLeastFrequent ==
  [][(kind = "LFU" /\ last'.op = "put" /\ removed # {}) =>
       \E v \in cached(kind, policy) :
         /\ removed = {v}
         /\ \A o \in cached(kind, policy) \ {v} :
              /\ policy.cache[v].access_count <= policy.cache[o].access_count
              /\ policy.cache[v].access_count = policy.cache[o].access_count
                   => touch[v].touched < touch[o].touched]_vars

\* the victim was touched later than an entry that stays cached
C5_Witness ==
  /\ kind = "LFU"
  /\ last.op = "put"
  /\ last.victim # <<>>
  /\ \E o \in DOMAIN touch \ {last.content_id} :
       /\ touch[o].touched < last.victim[1].last_access_time
       /\ policy.cache[o].access_count > last.victim[1].access_count

\* C6: a get of a cached id adds 1 to hits, leaves misses alone and returns
\* the stored content; a get of an id that is not cached adds 1 to misses,
\* returns None and changes nothing else of the object (LRU, LFU, FIFO).
C6_GetCountsHitOrMiss ==
  [][(last'.op = "get" /\ kind \in PlainKinds) =>
       IF last'.content_id \in cached(kind, policy)
       THEN /\ policy'.hits = policy.hits + 1
            /\ policy'.misses = policy.misses
            /\ last'.ret = entry(kind, policy, last'.content_id).content
       ELSE /\ policy' = [policy EXCEPT !.misses = @ + 1]
            /\ last'.ret = None]_vars

\* a miss on an LFUCache that holds entries and has served hits
C6_Witness ==
  /\ kind = "LFU"
  /\ last.op = "get"
  /\ ~last.present
  /\ last.ret = None
  /\ size(kind, policy) >= 1
  /\ policy.hits >= 1
  /\ policy.misses >= 1

\* C7: contains changes nothing of the object it is called on, in LRU, LFU,
\* FIFO and Adaptive: counters, entries, order, access counts, request
\* count and window counters are as before.
C7_ContainsChangesNothing ==
  [][last'.op = "contains" => policy' = policy]_vars

C7_Witness ==
  /\ kind = "ADAPTIVE"
  /\ last.op = "contains"
  /\ last.ret = TRUE
  /\ policy.request_count >= 1
  /\ policy.lru_cache.evictions >= 1

\* C8: a put of an id that is already cached replaces the stored content,
\* so that the next get returns it, and leaves the set of cached ids as it
\* was (LRU, LFU, FIFO).
C8_PutReplacesContent ==
  [][(last'.op = "put" /\ kind \in PlainKinds /\ last'.present) =>
       /\ cached(kind, policy') = cached(kind, policy)
       /\ entry(kind, policy', last'.content_id).content = last'.content]_vars

\* C9 as claimed: in LFUCache the access count is 1 after an insertion,
\* rises by 1 on a get hit and is left alone by a put of a cached key.
C9_LFUPutKeepsCount ==
  [][(/\ kind = "LFU"
      /\ last'.op \in {"get", "put"}
      /\ last'.content_id \in cached(kind, policy')) =>
       policy'.cache[last'.content_id].access_count =
         IF ~last'.present THEN 1
         ELSE IF last'.op = "get"
         THEN policy.cache[last'.content_id].access_count + 1
         ELSE policy.cache[last'.content_id].access_count]_vars

\* C9 as amended: in LFUCache the access count is 1 after an insertion and
\* rises by exactly 1 on a get hit and on a put of a cached key.
C9_LFUAccessCount ==
  [][(/\ kind = "LFU"
      /\ last'.op \in {"get", "put"}
      /\ last'.content_id \in cached(kind, policy')) =>
       policy'.cache[last'.content_id].access_count =
         IF ~last'.present THEN 1
         ELSE policy.cache[last'.content_id].access_count + 1]_vars

\* a put of a cached key that had been inserted and read once
C9_Witness ==
  /\ kind = "LFU"
  /\ last.op = "put"
  /\ last.present
  /\ policy.cache[last.content_id].access_count = 3
  /\ policy.hits = 2

\* C10: a get, put or contains on an AdaptiveCache leaves the two
\* constituent caches that current_strategy does not name exactly as they
\* were.
constituent(self, strategy) ==
  CASE strategy = "LRU" -> self.lru_cache
    [] strategy = "LFU" -> self.lfu_cache
    [] OTHER -> self.fifo_cache

C10_AdaptiveRoutesToCurrentOnly ==
  [][(kind = "ADAPTIVE" /\ last'.op \in {"get", "put", "contains"}) =>
       \A s \in {"LRU", "LFU", "FIFO"} \ {policy.current_strategy} :
         constituent(policy', s) = constituent(policy, s)]_vars

\* a put through the AdaptiveCache that evicted from the current cache
C10_Witness ==
  /\ kind = "ADAPTIVE"
  /\ last.op = "put"
  /\ last.victim # <<>>
  /\ constituent(policy, policy.current_strategy).evictions >= 1
  /\ constituent(policy, policy.current_strategy).hits >= 1

\* ------------------------------------ AdaptiveCache near a window boundary
\* The caller's warm-up loop `for _ in range(n): cache.get(content_id)`,
\* the k-th call reading the time now + k - 1; the result of its last call.
\* (The loop is unrolled by halves: its first n \div 2 calls, then the rest.)
RECURSIVE replay_get(_, _, _, _)
replay_get(self, content_id, n, now) ==
  IF n <= 1 THEN AdaptiveCache_get(self, content_id, now)
  ELSE LET h == n \div 2
           first == replay_get(self, content_id, h, now)
       IN IF first.exc = None  \* a call that raises ends the loop
          THEN replay_get(first.self, content_id, n - h, now + h)
          ELSE first

\* An AdaptiveCache that has served `puts` (0 or 1) puts of the first id
\* and then `gets` gets of it, the last of them at time 0.
warmed_up(capacity, puts, gets) ==
  LET fresh == AdaptiveCache_init(capacity)
      start == IF puts = 0 THEN fresh
               ELSE AdaptiveCache_put(fresh, KeyNames[1], "c1", 0 - gets).self
  IN replay_get(start, KeyNames[1], gets, 1 - gets)

\* the runs stop one call after the first window is complete
MaxCalls == evaluation_window + 1

InitWindow ==
  /\ kind = "ADAPTIVE"
  /\ \E capacity \in 1..MaxCapacity, puts \in 0..1,
        gets \in {evaluation_window - 3, evaluation_window - 2} :
       LET r == warmed_up(capacity, puts, gets)
       IN /\ policy = r.self
          /\ last = Call("get", KeyNames[1], None, puts = 1, r)
          /\ touch = IF puts = 1
                     THEN dict_set(EmptyDict, KeyNames[1],
                                   [inserted |-> 0 - gets, touched |-> 0])
                     ELSE EmptyDict
          /\ calls = puts + gets
  /\ clock = 0
  /\ node = None
  /\ metrics = None
  /\ constellation = None
  /\ NoApplication

WindowGet(content_id) ==
  calls < MaxCalls /\ get_step(content_id) /\ calls' = calls + 1

WindowPut(content_id, content) ==
  calls < MaxCalls /\ put_step(content_id, content) /\ calls' = calls + 1

WindowContains(content_id) ==
  calls < MaxCalls /\ contains_step(content_id) /\ calls' = calls + 1

NextWindow ==
  \/ \E content_id \in Keys : WindowGet(content_id)
  \/ \E content_id \in Keys :
       \E content \in ContentsOf(content_id) : WindowPut(content_id, content)
  \/ \E content_id \in Keys : WindowContains(content_id)

SpecWindow == InitWindow /\ [][NextWindow]_vars

\* C11 as stated: the evaluation has run once for every evaluation_window
\* get, put and contains calls made on the AdaptiveCache, inside the call
\* that completed the window, and at no other time.
C11_EvaluatesEveryWindowOfCalls ==
  policy.evaluations = calls \div evaluation_window

\* C11: request_count counts the get calls only (a put or a contains leaves
\* it alone), and the evaluation runs exactly once inside every get that
\* makes request_count a multiple of evaluation_window, and in no other call.
C11_EvaluatesEveryWindowOfGets ==
  [][/\ policy'.request_count =
          policy.request_count + (IF last'.op = "get" THEN 1 ELSE 0)
     /\ policy'.evaluations =
          policy.evaluations +
            (IF /\ last'.op = "get"
                /\ policy'.request_count % evaluation_window = 0
             THEN 1 ELSE 0)]_vars

\* the 100th get has run the evaluation, as the 101st call on the object
C11_Witness ==
  /\ last.op = "get"
  /\ policy.request_count = evaluation_window
  /\ policy.evaluations = 1
  /\ calls = evaluation_window + 1

\* ------------------------------------------ AdaptiveCache._evaluate_and_switch
\* get_stats of LRUCache, LFUCache and FIFOCache; the rates hit_rate and
\* utilization are kept as pairs <<numerator, denominator>>, 0 as <<0, 1>>
cache_get_stats(strategy, self) ==
  LET total_requests == self.hits + self.misses
  IN [strategy |-> strategy,
      hits |-> self.hits,
      misses |-> self.misses,
      hit_rate |-> IF total_requests > 0 THEN <<self.hits, total_requests>>
                   ELSE <<0, 1>>,
      evictions |-> self.evictions,
      size |-> size(strategy, self),
      capacity |-> self.capacity,
      utilization |-> IF self.capacity > 0
                      THEN <<size(strategy, self), self.capacity>>
                      ELSE <<0, 1>>]

\* self.strategy_history[-5:]
stats_history_len == 5
last_switches(history) ==
  IF Len(history) <= stats_history_len THEN history
  ELSE SubSeq(history, Len(history) - stats_history_len + 1, Len(history))

AdaptiveCache_get_stats(self) ==
  LET cs == self.current_strategy
      stats == CASE cs = "LRU" -> cache_get_stats("LRU", self.lru_cache)
                 [] cs = "LFU" -> cache_get_stats("LFU", self.lfu_cache)
                 [] OTHER -> cache_get_stats("FIFO", self.fifo_cache)
  IN [strategy |-> stats.strategy, hits |-> stats.hits,
      misses |-> stats.misses, hit_rate |-> stats.hit_rate,
      evictions |-> stats.evictions, size |-> stats.size,
      capacity |-> stats.capacity, utilization |-> stats.utilization,
      adaptive |-> TRUE,
      current_strategy |-> self.current_strategy,
      strategy_history |-> last_switches(self.strategy_history),
      strategy_performance |->
        [k \in DOMAIN self.strategy_performance |->
           LET v == self.strategy_performance[k]
           IN [hits |-> v.hits, misses |-> v.misses,
               hit_rate |-> IF v.hits + v.misses > 0
                            THEN <<v.hits, v.hits + v.misses>>
                            ELSE <<0, 1>>]]]

\* The objects _evaluate_and_switch is applied to: any current strategy and,
\* for each strategy, the hits and misses of a window: none, a hit, a miss
\* and, in the first window, a hit and a miss.
WindowSamples ==
  {[hits |-> 0, misses |-> 0], [hits |-> 1, misses |-> 0],
   [hits |-> 0, misses |-> 1]}
FirstWindowSamples == WindowSamples \cup {[hits |-> 1, misses |-> 1]}

\* the runs go one switch beyond what get_stats reports
MaxSwitches == stats_history_len + 1

InitEvaluate ==
  /\ kind = "ADAPTIVE"
  /\ \E strategy \in PlainKinds,
        perf \in [PlainKinds -> FirstWindowSamples] :
       policy = [AdaptiveCache_init(1) EXCEPT
                   !.current_strategy = strategy,
                   !.strategy_performance = perf,
                   !.request_count = evaluation_window]
  /\ clock = 0
  /\ last = Call("init", None, None, FALSE, Result(None, None, <<>>, None))
  /\ touch = EmptyDict
  /\ calls = 0
  /\ node = None
  /\ metrics = None
  /\ constellation = None
  /\ NoApplication

\* the evaluation of the window that request_count has completed
Evaluate ==
  /\ policy.evaluations * evaluation_window < policy.request_count
  /\ policy' = AdaptiveCache_evaluate_and_switch(policy)
  /\ last' = Call("_evaluate_and_switch", None, None, FALSE,
                  Result(policy', None, <<>>, None))
  /\ UNCHANGED <<application, kind, clock, touch, calls, node, metrics,
               constellation>>

\* after a switch, the requests of the next window leave new counters
Requests(perf) ==
  /\ policy.evaluations * evaluation_window = policy.request_count
  /\ policy.evaluations = Len(policy.strategy_history)
  /\ Len(policy.strategy_history) < MaxSwitches
  /\ policy' = [policy EXCEPT !.strategy_performance = perf,
                              !.request_count = @ + evaluation_window]
  /\ last' = Call("requests", None, None, FALSE,
                  Result(policy', None, <<>>, None))
  /\ UNCHANGED <<application, kind, clock, touch, calls, node, metrics,
               constellation>>

GetStats ==
  /\ last.op # "get_stats"
  /\ last' = Call("get_stats", None, None, FALSE,
                  Result(policy, AdaptiveCache_get_stats(policy), <<>>, None))
  /\ UNCHANGED <<application, kind, policy, clock, touch, calls, node,
               metrics,
               constellation>>

NextEvaluate ==
  \/ Evaluate
  \/ \E perf \in [PlainKinds -> WindowSamples] : Requests(perf)
  \/ GetStats

SpecEvaluate == InitEvaluate /\ [][NextEvaluate]_vars

\* the windowed hit rate of a strategy: hits / (hits + misses) of its window
\* counters, 0 when the window holds no request of it
window_rate(self, strategy) ==
  LET perf == self.strategy_performance[strategy]
  IN IF perf.hits + perf.misses > 0
     THEN <<perf.hits, perf.hits + perf.misses>> ELSE <<0, 1>>

no_requests == [s \in PlainKinds |-> [hits |-> 0, misses |-> 0]]

C14_CountersZeroAfterEveryEvaluation ==
  [][last'.op = "_evaluate_and_switch" =>
       policy'.strategy_performance = no_requests]_vars

\* C14: right after an evaluation that switched the window counters of all
\* three strategies are zero; an evaluation that did not switch leaves them
\* as they were.
C14_CountersZeroAfterSwitchOnly ==
  [][last'.op = "_evaluate_and_switch" =>
       policy'.strategy_performance =
         IF policy'.current_strategy # policy.current_strategy
         THEN no_requests ELSE policy.strategy_performance]_vars

\* after a switch, an evaluation that did not switch has left the counters
\* of its window in place
C14_Witness ==
  /\ last.op = "_evaluate_and_switch"
  /\ Len(policy.strategy_history) = 1
  /\ policy.evaluations = 2
  /\ policy.strategy_performance # no_requests

\* ----------------------------- NetworkMetrics (ntn_network_simulation.py)
\* Latencies are in ms and bandwidths in Mbps, as in the code.  The code
\* returns seconds as a float; the model returns the same time in integer
\* milliseconds.
NetworkMetrics_init ==
  [satellite_latency_ms |-> 15, ground_latency_ms |-> 150,
   satellite_bandwidth_mbps |-> 100, ground_bandwidth_mbps |-> 1000]

calculate_delivery_time_swapped_bandwidth(self, size_mb, from_satellite) ==
  LET bandwidth == IF from_satellite THEN self.ground_bandwidth_mbps
                   ELSE self.satellite_bandwidth_mbps
      latency == IF from_satellite THEN self.satellite_latency_ms
                 ELSE self.ground_latency_ms
      transfer_time == (size_mb * 8 * 1000) \div bandwidth
  IN transfer_time + latency

calculate_delivery_time_bytes_as_bits(self, size_mb, from_satellite) ==
  LET bandwidth == IF from_satellite THEN self.satellite_bandwidth_mbps
                   ELSE self.ground_bandwidth_mbps
      latency == IF from_satellite THEN self.satellite_latency_ms
                 ELSE self.ground_latency_ms
      transfer_time == (size_mb * 1000) \div bandwidth
  IN transfer_time + latency

\* transfer_time = (size_mb * 8) / bandwidth seconds, latency = latency_ms /
\* 1000.0 seconds: in ms, size_mb * 8 * 1000 / bandwidth + latency_ms
calculate_delivery_time(self, size_mb, from_satellite) ==
  LET bandwidth == IF from_satellite THEN self.satellite_bandwidth_mbps
                   ELSE self.ground_bandwidth_mbps
      latency == IF from_satellite THEN self.satellite_latency_ms
                 ELSE self.ground_latency_ms
      transfer_time == (size_mb * 8 * 1000) \div bandwidth
  IN transfer_time + latency

\* calculate_delivery_time assigns no attribute
calculate_delivery_time_after(self, size_mb, from_satellite) == self

\* content sizes in MB; the largest item of the catalog has 450 MB
MaxSizeMb == 450

InitDelivery ==
  /\ metrics = NetworkMetrics_init
  /\ constellation = None
  /\ last = [op |-> "init", size_mb |-> 0, from_satellite |-> TRUE,
             ret |-> 0]
  /\ kind = None
  /\ policy = None
  /\ clock = 0
  /\ touch = EmptyDict
  /\ calls = 0
  /\ node = None
  /\ NoApplication

CalculateDeliveryTime(size_mb, from_satellite) ==
  /\ last' = [op |-> "calculate_delivery_time", size_mb |-> size_mb,
              from_satellite |-> from_satellite,
              ret |-> calculate_delivery_time(metrics, size_mb,
                                              from_satellite)]
  /\ metrics' = calculate_delivery_time_after(metrics, size_mb,
                                              from_satellite)
  /\ UNCHANGED <<application, kind, policy, clock, touch, calls, node,
               constellation>>

NextDelivery ==
  \E size_mb \in 0..MaxSizeMb, from_satellite \in BOOLEAN :
    CalculateDeliveryTime(size_mb, from_satellite)

SpecDelivery == InitDelivery /\ [][NextDelivery]_vars

C20_DeliveryTimeFormula ==
  [][last'.op = "calculate_delivery_time" =>
       /\ last'.ret = IF last'.from_satellite THEN 80 * last'.size_mb + 15
                      ELSE 8 * last'.size_mb + 150
       /\ last'.size_mb > 0 =>
            calculate_delivery_time(metrics, last'.size_mb - 1,
                                    last'.from_satellite) <= last'.ret
       /\ metrics' = metrics
       /\ metrics = NetworkMetrics_init
       /\ UNCHANGED <<application, kind, policy, clock, touch, calls, node,
                      constellation>>]_vars

\* the largest item of the catalog, from the ground: 8 * 450 + 150 ms
C20_Witness ==
  /\ last.op = "calculate_delivery_time"
  /\ last.size_mb = 450
  /\ ~last.from_satellite
  /\ last.ret = 3750

\* ------------------------------ content catalog (realistic_content_catalog.py)
NumContentItems == 4
MaxCacheSize == 3
MaxRequests == 5

\* ContentItem: the id and the size are what the node reads
ContentItem(content_id, size_mb) ==
  [content_id |-> content_id, size_mb |-> size_mb]

\* items of REALISTIC_CONTENT_CATALOG; the runs use the first
\* NumContentItems of them as their catalog
CatalogItems ==
  <<ContentItem("doc_news_article", 2),
    ContentItem("doc_weather_report", 3),
    ContentItem("doc_emergency_protocol", 5),
    ContentItem("image_infographic", 8),
    ContentItem("image_news_photo", 12),
    ContentItem("app_weather_monitor", 18),
    ContentItem("app_emergency_guide", 25),
    ContentItem("audio_news_podcast", 35)>>
REALISTIC_CONTENT_CATALOG == SubSeq(CatalogItems, 1, NumContentItems)

CatalogIds ==
  {REALISTIC_CONTENT_CATALOG[i].content_id :
     i \in 1..Len(REALISTIC_CONTENT_CATALOG)}

\* an id the catalog does not hold
UnknownIds == {"no_such_content"}

\* An Optional[ContentItem] is a sequence: <<>> for None, <<item>> for an
\* item.
NoItem == <<>>

\* the first item with the id, None when there is none
get_content_by_id(content_id) ==
  IF content_id \in CatalogIds
  THEN <<REALISTIC_CONTENT_CATALOG[
           CHOOSE i \in 1..Len(REALISTIC_CONTENT_CATALOG) :
             /\ REALISTIC_CONTENT_CATALOG[i].content_id = content_id
             /\ \A j \in 1..(i - 1) :
                  REALISTIC_CONTENT_CATALOG[j].content_id # content_id]>>
  ELSE NoItem

\* ----------------------------------- LRUCache (ntn_network_simulation.py)
\* OrderedDict[str, ContentItem] as a sequence of ContentItems, first
\* element = first key of the dictionary
ntn_LRUCache_init(capacity) ==
  [capacity |-> capacity, cache |-> <<>>,
   hits |-> 0, misses |-> 0, evictions |-> 0]

ntn_LRUCache_get_uncounted_miss(self, content_id) ==
  IF content_id \in od_keys(self.cache)
  THEN LET item == od_getitem(self.cache, content_id)
       IN Result([self EXCEPT !.cache = od_move_to_end(@, item),
                              !.hits = @ + 1],
                 <<item>>, <<>>, None)
  ELSE Result(self, NoItem, <<>>, None)

ntn_LRUCache_get_no_move(self, content_id) ==
  IF content_id \in od_keys(self.cache)
  THEN LET item == od_getitem(self.cache, content_id)
       IN Result([self EXCEPT !.hits = @ + 1],
                 <<item>>, <<>>, None)
  ELSE Result([self EXCEPT !.misses = @ + 1], NoItem, <<>>, None)

ntn_LRUCache_get(self, content_id) ==
  IF content_id \in od_keys(self.cache)
  THEN LET item == od_getitem(self.cache, content_id)
       IN Result([self EXCEPT !.cache = od_move_to_end(@, item),
                              !.hits = @ + 1],
                 <<item>>, <<>>, None)
  ELSE Result([self EXCEPT !.misses = @ + 1], NoItem, <<>>, None)

ntn_LRUCache_put(self, content_id, content) ==
  IF content_id \in od_keys(self.cache)
  THEN Result([self EXCEPT
                 !.cache = od_move_to_end(@, od_getitem(@, content_id))],
              None, <<>>, None)
  ELSE IF Len(self.cache) >= self.capacity
       THEN IF self.cache = <<>>
            THEN \* popitem on an empty OrderedDict
                 Result(self, None, <<>>, "KeyError")
            ELSE Result([self EXCEPT
                           !.cache = Append(Tail(@), content),
                           !.evictions = @ + 1],
                        None, <<Head(self.cache)>>, None)
       ELSE Result([self EXCEPT !.cache = Append(@, content)],
                   None, <<>>, None)

ntn_LRUCache_contains(self, content_id) == content_id \in od_keys(self.cache)

\* ------------------------------ SatelliteNode (ntn_network_simulation.py)
\* env_now is self.env.now, the clock of the simpy environment, in ms
SatelliteNode_init(satellite_id, cache_size) ==
  [env_now |-> 0,
   satellite_id |-> satellite_id,
   cache |-> ntn_LRUCache_init(cache_size),
   network_metrics |-> NetworkMetrics_init,
   total_requests |-> 0,
   total_content_delivered_mb |-> 0,
   request_log |-> <<>>]

\* an element of `steps`: the time and the action of the step
step(time, action) == [time |-> time, action |-> action]

\* request_content on a cache hit, from the `if cached_content:` on
request_content_hit(self, content_id, user_id, got, steps, current_time) ==
  LET request_start_time == self.env_now
      cached_content == got.ret[1]
      delivery_time == calculate_delivery_time(self.network_metrics,
                                               cached_content.size_mb, TRUE)
      delivered == current_time + 1 + delivery_time
      log_entry ==
        [timestamp |-> request_start_time,
         user_id |-> user_id,
         content_id |-> content_id,
         content |-> <<cached_content>>,
         status |-> "HIT",
         source |-> "Satellite Cache",
         delivery_time |-> delivery_time,
         total_time |-> delivered - request_start_time,
         latency_satellite_ms |-> 15,
         latency_ground_ms |-> 0,
         steps |-> steps \o
           <<step(current_time, "cache_hit"),
             step(current_time + 1, "satellite_delivery"),
             step(delivered, "delivery_complete")>>]
  IN Result([self EXCEPT !.cache = got.self,
                         !.request_log = Append(@, log_entry)],
            log_entry, <<>>, None)

request_content_error_unlogged(self, content_id, user_id, got, steps, current_time) ==
  LET log_entry ==
        [timestamp |-> self.env_now,
         user_id |-> user_id,
         content_id |-> content_id,
         content |-> NoItem,
         status |-> "ERROR",
         source |-> "None",
         delivery_time |-> 0,
         steps |-> steps \o
           <<step(current_time, "cache_miss"),
             step(current_time + 1, "error")>>]
  IN Result([self EXCEPT !.cache = got.self], log_entry, <<>>, None)


request_content_error_evicts(self, content_id, user_id, got, steps, current_time) ==
  LET log_entry ==
        [timestamp |-> self.env_now,
         user_id |-> user_id,
         content_id |-> content_id,
         content |-> NoItem,
         status |-> "ERROR",
         source |-> "None",
         delivery_time |-> 0,
         steps |-> steps \o
           <<step(current_time, "cache_miss"),
             step(current_time + 1, "error")>>]
  IN Result([self EXCEPT
               !.cache = [got.self EXCEPT
                            !.cache = IF @ = <<>> THEN @ ELSE Tail(@)],
               !.request_log = Append(@, log_entry)],
            log_entry, <<>>, None)


\* request_content for an id that get_content_by_id does not find
request_content_error(self, content_id, user_id, got, steps, current_time) ==
  LET log_entry ==
        [timestamp |-> self.env_now,
         user_id |-> user_id,
         content_id |-> content_id,
         content |-> NoItem,
         status |-> "ERROR",
         source |-> "None",
         delivery_time |-> 0,
         steps |-> steps \o
           <<step(current_time, "cache_miss"),
             step(current_time + 1, "error")>>]
  IN Result([self EXCEPT !.cache = got.self,
                         !.request_log = Append(@, log_entry)],
            log_entry, <<>>, None)

request_content_miss_no_request_latency(self, content_id, user_id, got, steps, current_time, content) ==
  LET request_start_time == self.env_now
      metrics_ == self.network_metrics
      requested == current_time + 1
      fetching == requested
      ground_fetch_time ==
        calculate_delivery_time(metrics_, content.size_mb, FALSE)
      uploading == fetching + ground_fetch_time
      upload_time == calculate_delivery_time(metrics_, content.size_mb, FALSE)
      uploaded == uploading + upload_time
      stored == ntn_LRUCache_put(got.self, content_id, content)
      delivery_time ==
        calculate_delivery_time(metrics_, content.size_mb, TRUE)
      delivered == uploaded + 1 + delivery_time
      total_time == delivered - request_start_time
      log_entry ==
        [timestamp |-> request_start_time,
         user_id |-> user_id,
         content_id |-> content_id,
         content |-> <<content>>,
         status |-> "MISS",
         source |-> "Ground Station -> Satellite -> User",
         delivery_time |-> total_time,
         ground_fetch_time |-> ground_fetch_time,
         upload_time |-> upload_time,
         satellite_delivery_time |-> delivery_time,
         total_time |-> total_time,
         latency_satellite_ms |-> 15,
         latency_ground_ms |-> metrics_.ground_latency_ms,
         steps |-> steps \o
           <<step(current_time, "cache_miss"),
             step(requested, "ground_request"),
             step(fetching, "ground_fetch"),
             step(uploading, "satellite_upload"),
             step(uploaded, "cache_update"),
             step(uploaded + 1, "satellite_delivery"),
             step(delivered, "delivery_complete")>>]
  IN IF stored.exc # None
     THEN \* the exception of self.cache.put leaves request_content
          Result([self EXCEPT !.cache = got.self], <<>>, <<>>, stored.exc)
     ELSE Result([self EXCEPT
                    !.cache = stored.self,
                    !.total_content_delivered_mb = @ + content.size_mb,
                    !.request_log = Append(@, log_entry)],
                 log_entry, stored.victim, None)

\* request_content on a cache miss of an id of the catalog
request_content_miss(self, content_id, user_id, got, steps, current_time, content) ==
  LET request_start_time == self.env_now
      metrics_ == self.network_metrics
      requested == current_time + 1
      fetching == requested + metrics_.ground_latency_ms
      ground_fetch_time ==
        calculate_delivery_time(metrics_, content.size_mb, FALSE)
      uploading == fetching + ground_fetch_time
      upload_time == calculate_delivery_time(metrics_, content.size_mb, FALSE)
      uploaded == uploading + upload_time
      stored == ntn_LRUCache_put(got.self, content_id, content)
      delivery_time ==
        calculate_delivery_time(metrics_, content.size_mb, TRUE)
      delivered == uploaded + 1 + delivery_time
      total_time == delivered - request_start_time
      log_entry ==
        [timestamp |-> request_start_time,
         user_id |-> user_id,
         content_id |-> content_id,
         content |-> <<content>>,
         status |-> "MISS",
         source |-> "Ground Station -> Satellite -> User",
         delivery_time |-> total_time,
         ground_fetch_time |-> ground_fetch_time,
         upload_time |-> upload_time,
         satellite_delivery_time |-> delivery_time,
         total_time |-> total_time,
         latency_satellite_ms |-> 15,
         latency_ground_ms |-> metrics_.ground_latency_ms,
         steps |-> steps \o
           <<step(current_time, "cache_miss"),
             step(requested, "ground_request"),
             step(fetching, "ground_fetch"),
             step(uploading, "satellite_upload"),
             step(uploaded, "cache_update"),
             step(uploaded + 1, "satellite_delivery"),
             step(delivered, "delivery_complete")>>]
  IN IF stored.exc # None
     THEN \* the exception of self.cache.put leaves request_content
          Result([self EXCEPT !.cache = got.self], <<>>, <<>>, stored.exc)
     ELSE Result([self EXCEPT
                    !.cache = stored.self,
                    !.total_content_delivered_mb = @ + content.size_mb,
                    !.request_log = Append(@, log_entry)],
                 log_entry, stored.victim, None)

SatelliteNode_request_content(self, content_id, user_id) ==
  LET counted == [self EXCEPT !.total_requests = @ + 1]
      request_start_time == self.env_now
      steps == <<step(request_start_time, "user_request"),
                 step(request_start_time + 1, "satellite_receive"),
                 step(request_start_time + 1 + 15, "cache_check")>>
      current_time == request_start_time + 1 + 15 + 1
      got == ntn_LRUCache_get(self.cache, content_id)
      content == get_content_by_id(content_id)
  IN IF got.ret # NoItem
     THEN request_content_hit(counted, content_id, user_id, got, steps,
                              current_time)
     ELSE IF content = NoItem
     THEN request_content_error(counted, content_id, user_id, got, steps,
                                current_time)
     ELSE request_content_miss(counted, content_id, user_id, got, steps,
                               current_time, content[1])

\* NTNSimulation.simulate_request: the request, then env.run until
\* env.now + result['delivery_time'] when that time is above 0
NTNSimulation_simulate_request(self, content_id, user_id) ==
  LET r == SatelliteNode_request_content(self, content_id, user_id)
  IN IF r.exc = None /\ r.ret.delivery_time > 0
     THEN Result([r.self EXCEPT !.env_now = @ + r.ret.delivery_time],
                 r.ret, r.victim, r.exc)
     ELSE r

UserIds == {"user_1"}

InitNode ==
  /\ \E cache_size \in 1..MaxCacheSize :
       node = SatelliteNode_init("LEO-1", cache_size)
  /\ last = Call("init", None, None, FALSE, Result(None, <<>>, <<>>, None))
  /\ kind = None
  /\ policy = None
  /\ clock = 0
  /\ touch = EmptyDict
  /\ calls = 0
  /\ metrics = None
  /\ constellation = None
  /\ NoApplication

SimulateRequest(content_id, user_id) ==
  /\ last.exc = None
  /\ node.total_requests < MaxRequests
  /\ LET r == NTNSimulation_simulate_request(node, content_id, user_id)
     IN /\ node' = r.self
        /\ last' = Call("request_content", content_id, None,
                        ntn_LRUCache_contains(node.cache, content_id), r)
  /\ UNCHANGED <<application, kind, policy, clock, touch, calls, metrics,
               constellation>>

NextNode ==
  \E content_id \in CatalogIds \cup UnknownIds, user_id \in UserIds :
    SimulateRequest(content_id, user_id)

SpecNode == InitNode /\ [][NextNode]_vars

\* the ids requested so far and the statuses returned, oldest first
log_ids(self) ==
  [i \in 1..Len(self.request_log) |-> self.request_log[i].content_id]
log_statuses(self) ==
  [i \in 1..Len(self.request_log) |-> self.request_log[i].status]

\* C15: a request for an id of the catalog returns HIT when the id is in the
\* node's cache and MISS otherwise; after it the id is cached; a MISS evicts
\* at most one entry, the first of the LRU order, and a HIT evicts none; the
\* request for the same id directly after a request is a HIT.  With
\* capacity 3 and the requests a, b, c, a, d the statuses are MISS, MISS,
\* MISS, HIT, MISS and the cached ids are a, c, d.
C15_HitIffCached ==
  [][(last'.op = "request_content" /\ last'.content_id \in CatalogIds) =>
       LET id == last'.content_id
           before == node.cache.cache
           after == node'.cache.cache
           was_cached == id \in od_keys(before)
       IN /\ last'.exc = None
          /\ last'.ret.status = IF was_cached THEN "HIT" ELSE "MISS"
          /\ id \in od_keys(after)
          /\ IF was_cached
             THEN /\ od_keys(after) = od_keys(before)
                  /\ last'.victim = <<>>
             ELSE /\ Len(last'.victim) <= 1
                  /\ Len(last'.victim) = 1 <=>
                       Len(before) = node.cache.capacity
                  /\ last'.victim # <<>> => last'.victim[1] = Head(before)
                  /\ od_keys(after) =
                       (od_keys(before) \ od_keys(last'.victim)) \cup {id}
          /\ node'.cache.evictions =
               node.cache.evictions + Len(last'.victim)
          /\ (last.op = "request_content" /\ last.content_id = id)
               => last'.ret.status = "HIT"
          /\ \A a, b, c, d \in {x \in CatalogIds :
                                  /\ node'.cache.capacity = 3
                                  /\ Len(node'.request_log) = 5} :
               (/\ Cardinality({a, b, c, d}) = 4
                /\ log_ids(node') = <<a, b, c, a, d>>)
               => /\ log_statuses(node') =
                       <<"MISS", "MISS", "MISS", "HIT", "MISS">>
                  /\ od_keys(after) = {a, c, d}]_vars

\* capacity 3, five requests a, b, c, a, d: the last one has evicted b
C15_Witness ==
  /\ node.cache.capacity = 3
  /\ Len(node.request_log) = 5
  /\ log_ids(node)[1] = log_ids(node)[4]
  /\ log_statuses(node) = <<"MISS", "MISS", "MISS", "HIT", "MISS">>
  /\ node.cache.evictions = 1
  /\ last.victim # <<>>
  /\ last.victim[1].content_id = log_ids(node)[2]

\* C17: a request for an id that the catalog does not hold returns a log
\* entry of status ERROR with delivery_time 0 and raises nothing; the cached
\* entries and their order stay as they were and nothing is evicted.
C17_UnknownIdIsError ==
  [][(last'.op = "request_content" /\ last'.content_id \notin CatalogIds) =>
       /\ last'.exc = None
       /\ last'.ret.status = "ERROR"
       /\ last'.ret.delivery_time = 0
       /\ last'.ret.content = NoItem
       /\ last'.victim = <<>>
       /\ node'.cache.cache = node.cache.cache
       /\ node'.cache.evictions = node.cache.evictions
       /\ node'.cache.capacity = node.cache.capacity]_vars

\* an ERROR request on a node whose cache is full
C17_Witness ==
  /\ last.op = "request_content"
  /\ last.ret.status = "ERROR"
  /\ Len(node.cache.cache) = node.cache.capacity
  /\ Len(node.cache.cache) = 2

\* the two ground legs and the satellite leg of a content of that size
three_legs(self, size_mb) ==
  calculate_delivery_time(self.network_metrics, size_mb, FALSE)
  + calculate_delivery_time(self.network_metrics, size_mb, FALSE)
  + calculate_delivery_time(self.network_metrics, size_mb, TRUE)

\* C18 as stated: the total_time of a MISS is the sum of the ground fetch,
\* the upload and the satellite delivery times of the content, and nothing
\* else.
C18_MissTotalIsThreeLegs ==
  [][(last'.op = "request_content" /\ last'.exc = None
      /\ last'.ret.status = "MISS") =>
       last'.ret.total_time = three_legs(node, last'.ret.content[1].size_mb)
     ]_vars

\* C18: the total_time of a MISS is the sum of the ground fetch, the upload
\* and the satellite delivery times of the content plus the fixed times of
\* the steps: 1 ms request transmission, 15 ms satellite processing, 1 ms
\* cache check, 1 ms miss handling, the ground latency of the request to the
\* ground station and 1 ms cache update.
C18_MissTotalIsThreeLegsAndSteps ==
  [][(last'.op = "request_content" /\ last'.exc = None
      /\ last'.ret.status = "MISS") =>
       LET entry_ == last'.ret
           size_mb == entry_.content[1].size_mb
       IN /\ entry_.ground_fetch_time =
               calculate_delivery_time(node.network_metrics, size_mb, FALSE)
          /\ entry_.upload_time =
               calculate_delivery_time(node.network_metrics, size_mb, FALSE)
          /\ entry_.satellite_delivery_time =
               calculate_delivery_time(node.network_metrics, size_mb, TRUE)
          /\ entry_.total_time =
               three_legs(node, size_mb) + 1 + 15 + 1 + 1
               + node.network_metrics.ground_latency_ms + 1
          /\ entry_.delivery_time = entry_.total_time]_vars

\* a MISS of the 2 MB item: 166 + 166 + 175 ms of legs, 676 ms in total
C18_Witness ==
  /\ last.op = "request_content"
  /\ last.ret.status = "MISS"
  /\ last.ret.content[1].size_mb = 2
  /\ three_legs(node, 2) = 507
  /\ last.ret.total_time = 676


\* ------------------------- the constellation (satellite_constellation.py)
\* The Content object the request handler builds from a catalog item.  The
\* caches compare a content with None and read nothing of it, so the object
\* is named by its content_id; its size is the size_mb of the catalog item.
Content(content_item) == content_item.content_id
Content_size(content) == get_content_by_id(content)[1].size_mb

SatellitePosition(latitude, longitude, altitude) ==
  [latitude |-> latitude, longitude |-> longitude, altitude |-> altitude]

abs(x) == IF x < 0 THEN 0 - x ELSE x

\* distance_to returns the square root of this sum; the distances are
\* compared and sorted, which gives the same result on the squares
distance_to(self, other) ==
  LET lat_diff == abs(self.latitude - other.latitude)
      lon_diff == abs(self.longitude - other.longitude)
      alt_diff == abs(self.altitude - other.altitude)
  IN lat_diff * lat_diff + lon_diff * lon_diff + alt_diff * alt_diff

\* get_nearest_satellites(reference, max_distance=1000)
max_distance == 1000

create_constellation_cache(strategy, capacity) ==
  IF strategy \in Kinds THEN construct(strategy, capacity)
  ELSE construct("LRU", capacity)

\* Satellite.__init__ followed by ConstellationSatellite.__init__ and the
\* assignment of add_satellite; `cache` is the OrderedDict of the base
\* class, which the constellation satellite never writes
ConstellationSatellite_init(cache_size, satellite_id, position, caching_strategy) ==
  [cache_size |-> cache_size,
   cache |-> <<>>,
   total_requests |-> 0,
   cache_hits |-> 0,
   cache_misses |-> 0,
   total_content_delivered |-> 0,
   cache_evictions |-> 0,
   request_log |-> <<>>,
   satellite_id |-> satellite_id,
   position |-> position,
   inter_satellite_requests |-> 0,
   inter_satellite_hits |-> 0,
   caching_strategy |-> caching_strategy,
   cache_policy |-> create_constellation_cache(caching_strategy, cache_size)]

\* cache_policy.get_stats() of the satellite's class of cache
call_get_stats(k, self) ==
  IF k = "ADAPTIVE" THEN AdaptiveCache_get_stats(self)
  ELSE cache_get_stats(k, self)

\* distances.sort(key=lambda x: x[0]): ascending, equal distances in the
\* order of the satellites list
RECURSIVE sort_by_distance(_, _)
sort_by_distance(dist, idxs) ==
  IF idxs = {} THEN <<>>
  ELSE LET first == CHOOSE i \in idxs :
                      \A j \in idxs :
                        \/ dist[i] < dist[j]
                        \/ dist[i] = dist[j] /\ i <= j
       IN <<first>> \o sort_by_distance(dist, idxs \ {first})

get_nearest_satellites_unsorted(satellites, reference) ==
  LET near == {i \in 1..Len(satellites) :
                 /\ satellites[i].satellite_id # reference.satellite_id
                 /\ distance_to(reference.position, satellites[i].position)
                      <= max_distance * max_distance}
      dist == [i \in near |->
                 distance_to(reference.position, satellites[i].position)]
      sorted == sort_by_distance([i \in near |-> 0], near)
  IN IF Len(sorted) <= 3 THEN sorted ELSE SubSeq(sorted, 1, 3)

get_nearest_satellites_two(satellites, reference) ==
  LET near == {i \in 1..Len(satellites) :
                 /\ satellites[i].satellite_id # reference.satellite_id
                 /\ distance_to(reference.position, satellites[i].position)
                      <= max_distance * max_distance}
      dist == [i \in near |->
                 distance_to(reference.position, satellites[i].position)]
      sorted == sort_by_distance(dist, near)
  IN IF Len(sorted) <= 2 THEN sorted ELSE SubSeq(sorted, 1, 2)

\* the indices in `satellites` of the satellites returned
get_nearest_satellites(satellites, reference) ==
  LET near == {i \in 1..Len(satellites) :
                 /\ satellites[i].satellite_id # reference.satellite_id
                 /\ distance_to(reference.position, satellites[i].position)
                      <= max_distance * max_distance}
      dist == [i \in near |->
                 distance_to(reference.position, satellites[i].position)]
      sorted == sort_by_distance(dist, near)
  IN IF Len(sorted) <= 3 THEN sorted ELSE SubSeq(sorted, 1, 3)

request_content_from_neighbor_gets_first(satellites, i, content_id, content, now) ==
  LET self == satellites[i]
      neighbors == get_nearest_satellites(satellites, self)
      holders == {n \in 1..Len(neighbors) :
                    LET neighbor == satellites[neighbors[n]]
                    IN call_contains(neighbor.caching_strategy,
                                     neighbor.cache_policy, content_id)}
  IN IF holders = {}
     THEN Result([satellites EXCEPT
                    ![i].inter_satellite_requests = @ + 1,
                    ![i].cache_policy =
                      call_get(self.caching_strategy, @, content_id,
                               now).self],
                 <<>>, <<>>, None)
     ELSE LET n == CHOOSE m \in holders : \A o \in holders : m <= o
              j == neighbors[n]
              neighbor == satellites[j]
          IN CHOOSE r \in
               {LET neighbor_content == IF got.ret = None THEN content
                                        ELSE got.ret
                IN CHOOSE q \in
                     {Result([satellites EXCEPT
                                ![j].cache_policy = got.self,
                                ![i].inter_satellite_requests = @ + 1,
                                ![i].inter_satellite_hits = @ + 1,
                                ![i].cache_policy = stored.self],
                             IF stored.exc = None
                             THEN <<[status |-> "Neighbor Hit",
                                     source_satellite |->
                                       neighbor.satellite_id,
                                     distance |->
                                       distance_to(self.position,
                                                   neighbor.position)]>>
                             ELSE <<>>,
                             stored.victim, stored.exc) :
                      stored \in {call_put(self.caching_strategy,
                                           self.cache_policy, content_id,
                                           neighbor_content, now)}} :
                     TRUE :
                got \in {call_get(neighbor.caching_strategy,
                                  neighbor.cache_policy, content_id,
                                  now)}} :
               TRUE

request_content_from_neighbor_no_get(satellites, i, content_id, content, now) ==
  LET self == satellites[i]
      neighbors == get_nearest_satellites(satellites, self)
      holders == {n \in 1..Len(neighbors) :
                    LET neighbor == satellites[neighbors[n]]
                    IN call_contains(neighbor.caching_strategy,
                                     neighbor.cache_policy, content_id)}
  IN IF holders = {}
     THEN Result([satellites EXCEPT ![i].inter_satellite_requests = @ + 1],
                 <<>>, <<>>, None)
     ELSE LET n == CHOOSE m \in holders : \A o \in holders : m <= o
              j == neighbors[n]
              neighbor == satellites[j]
          IN CHOOSE r \in
               {LET neighbor_content == IF got.ret = None THEN content
                                        ELSE got.ret
                IN CHOOSE q \in
                     {Result([satellites EXCEPT
                                ![j].cache_policy = neighbor.cache_policy,
                                ![i].inter_satellite_requests = @ + 1,
                                ![i].inter_satellite_hits = @ + 1,
                                ![i].cache_policy = stored.self],
                             IF stored.exc = None
                             THEN <<[status |-> "Neighbor Hit",
                                     source_satellite |->
                                       neighbor.satellite_id,
                                     distance |->
                                       distance_to(self.position,
                                                   neighbor.position)]>>
                             ELSE <<>>,
                             stored.victim, stored.exc) :
                      stored \in {call_put(self.caching_strategy,
                                           self.cache_policy, content_id,
                                           neighbor_content, now)}} :
                     TRUE :
                got \in {call_get(neighbor.caching_strategy,
                                  neighbor.cache_policy, content_id,
                                  now)}} :
               TRUE

request_content_from_neighbor_uncounted(satellites, i, content_id, content, now) ==
  LET self == satellites[i]
      neighbors == get_nearest_satellites(satellites, self)
      holders == {n \in 1..Len(neighbors) :
                    LET neighbor == satellites[neighbors[n]]
                    IN call_contains(neighbor.caching_strategy,
                                     neighbor.cache_policy, content_id)}
  IN IF holders = {}
     THEN Result([satellites EXCEPT ![i].inter_satellite_requests = @ + 1],
                 <<>>, <<>>, None)
     ELSE LET n == CHOOSE m \in holders : \A o \in holders : m <= o
              j == neighbors[n]
              neighbor == satellites[j]
          IN CHOOSE r \in
               {LET neighbor_content == IF got.ret = None THEN content
                                        ELSE got.ret
                IN CHOOSE q \in
                     {Result([satellites EXCEPT
                                ![j].cache_policy = got.self,
                                ![i].inter_satellite_requests = @,
                                ![i].inter_satellite_hits = @ + 1,
                                ![i].cache_policy = stored.self],
                             IF stored.exc = None
                             THEN <<[status |-> "Neighbor Hit",
                                     source_satellite |->
                                       neighbor.satellite_id,
                                     distance |->
                                       distance_to(self.position,
                                                   neighbor.position)]>>
                             ELSE <<>>,
                             stored.victim, stored.exc) :
                      stored \in {call_put(self.caching_strategy,
                                           self.cache_policy, content_id,
                                           neighbor_content, now)}} :
                     TRUE :
                got \in {call_get(neighbor.caching_strategy,
                                  neighbor.cache_policy, content_id,
                                  now)}} :
               TRUE

request_content_from_neighbor_last_holder(satellites, i, content_id, content, now) ==
  LET self == satellites[i]
      neighbors == get_nearest_satellites(satellites, self)
      holders == {n \in 1..Len(neighbors) :
                    LET neighbor == satellites[neighbors[n]]
                    IN call_contains(neighbor.caching_strategy,
                                     neighbor.cache_policy, content_id)}
  IN IF holders = {}
     THEN Result([satellites EXCEPT ![i].inter_satellite_requests = @ + 1],
                 <<>>, <<>>, None)
     ELSE LET n == CHOOSE m \in holders : \A o \in holders : m >= o
              j == neighbors[n]
              neighbor == satellites[j]
          IN CHOOSE r \in
               {LET neighbor_content == IF got.ret = None THEN content
                                        ELSE got.ret
                IN CHOOSE q \in
                     {Result([satellites EXCEPT
                                ![j].cache_policy = got.self,
                                ![i].inter_satellite_requests = @ + 1,
                                ![i].inter_satellite_hits = @ + 1,
                                ![i].cache_policy = stored.self],
                             IF stored.exc = None
                             THEN <<[status |-> "Neighbor Hit",
                                     source_satellite |->
                                       neighbor.satellite_id,
                                     distance |->
                                       distance_to(self.position,
                                                   neighbor.position)]>>
                             ELSE <<>>,
                             stored.victim, stored.exc) :
                      stored \in {call_put(self.caching_strategy,
                                           self.cache_policy, content_id,
                                           neighbor_content, now)}} :
                     TRUE :
                got \in {call_get(neighbor.caching_strategy,
                                  neighbor.cache_policy, content_id,
                                  now)}} :
               TRUE

\* request_content_from_neighbor of satellites[i]; it returns None, here
\* <<>>, or the dictionary of the neighbor hit, here a sequence of one
request_content_from_neighbor(satellites, i, content_id, content, now) ==
  LET self == satellites[i]
      neighbors == get_nearest_satellites(satellites, self)
      holders == {n \in 1..Len(neighbors) :
                    LET neighbor == satellites[neighbors[n]]
                    IN call_contains(neighbor.caching_strategy,
                                     neighbor.cache_policy, content_id)}
  IN IF holders = {}
     THEN Result([satellites EXCEPT ![i].inter_satellite_requests = @ + 1],
                 <<>>, <<>>, None)
     ELSE LET n == CHOOSE m \in holders : \A o \in holders : m <= o
              j == neighbors[n]
              neighbor == satellites[j]
          IN CHOOSE r \in
               {LET neighbor_content == IF got.ret = None THEN content
                                        ELSE got.ret
                IN CHOOSE q \in
                     {Result([satellites EXCEPT
                                ![j].cache_policy = got.self,
                                ![i].inter_satellite_requests = @ + 1,
                                ![i].inter_satellite_hits = @ + 1,
                                ![i].cache_policy = stored.self],
                             IF stored.exc = None
                             THEN <<[status |-> "Neighbor Hit",
                                     source_satellite |->
                                       neighbor.satellite_id,
                                     distance |->
                                       distance_to(self.position,
                                                   neighbor.position)]>>
                             ELSE <<>>,
                             stored.victim, stored.exc) :
                      stored \in {call_put(self.caching_strategy,
                                           self.cache_policy, content_id,
                                           neighbor_content, now)}} :
                     TRUE :
                got \in {call_get(neighbor.caching_strategy,
                                  neighbor.cache_policy, content_id,
                                  now)}} :
               TRUE

\* request_content from `# Update delivery statistics` on; the rates
\* cache_utilization and hit_rate are kept as pairs, the f-string of
\* delivery_source as the sequence of its parts
request_content_log(satellites, i, content_id, content, user_id, status, delivery_source, strategy_name, current_time, victim) ==
  LET self == satellites[i]
      delivered == self.total_content_delivered + Content_size(content)
      cache_stats == call_get_stats(self.caching_strategy, self.cache_policy)
      log_entry == [timestamp |-> current_time,
                    user_id |-> user_id,
                    content_id |-> content_id,
                    content_size |-> Content_size(content),
                    status |-> status,
                    delivery_source |-> delivery_source,
                    satellite_id |-> self.satellite_id,
                    cache_size |-> cache_stats.size,
                    cache_utilization |-> cache_stats.utilization,
                    hit_rate |-> <<self.cache_hits, self.total_requests>>,
                    total_requests |-> self.total_requests,
                    cache_hits |-> self.cache_hits,
                    cache_misses |-> self.cache_misses,
                    inter_satellite_hits |-> self.inter_satellite_hits,
                    caching_strategy |-> strategy_name]
  IN Result([satellites EXCEPT
               ![i].total_content_delivered = delivered,
               ![i].request_log = Append(@, log_entry)],
            log_entry, victim, None)

\* request_content after the neighbor lookup found no holder: `# Cache MISS
\* - fetch from ground`; `looked` is the list of satellites after the lookup
request_content_ground(looked, i, content_id, content, user_id, strategy_name, current_time, now) ==
  LET k == looked[i].caching_strategy
      policy_before == looked[i].cache_policy
      before_evictions == call_get_stats(k, policy_before).evictions
  IN CHOOSE r \in
       {LET after_evictions == call_get_stats(k, stored.self).evictions
            missed == [looked EXCEPT ![i].cache_misses = @ + 1,
                                     ![i].cache_policy = stored.self]
        IN IF stored.exc # None
           THEN Result(missed, <<>>, stored.victim, stored.exc)
           ELSE request_content_log(
                  IF after_evictions > before_evictions
                  THEN [missed EXCEPT
                          ![i].cache_evictions =
                            @ + (after_evictions - before_evictions)]
                  ELSE missed,
                  i, content_id, content, user_id, "Miss",
                  <<"Ground Station">>, strategy_name, current_time,
                  stored.victim) :
        stored \in {call_put(k, policy_before, content_id, content, now)}} :
       TRUE

\* ConstellationSatellite.request_content of satellites[i]; a neighbor
\* lookup changes the neighbor too, so the method maps the list of the
\* satellites to the list after the call.  The results of the calls it
\* makes are bound once, as the assignments of the code bind them.
ConstellationSatellite_request_content(satellites, i, content_id, content, user_id, now, env_now) ==
  LET counted == [satellites EXCEPT ![i].total_requests = @ + 1]
      self == counted[i]
      k == self.caching_strategy
      current_time == env_now
      strategy_name == call_get_stats(k, self.cache_policy).strategy
  IN IF call_contains(k, self.cache_policy, content_id)
     THEN CHOOSE r \in
            {request_content_log(
               [counted EXCEPT ![i].cache_policy = got.self,
                               ![i].cache_hits = @ + 1],
               i, content_id, content, user_id, "Hit",
               <<self.satellite_id, " Cache">>, strategy_name,
               current_time, <<>>) :
             got \in {call_get(k, self.cache_policy, content_id, now)}} :
            TRUE
     ELSE CHOOSE r \in
            {IF neighbor_result.exc # None
             THEN neighbor_result
             ELSE IF neighbor_result.ret # <<>>
             THEN request_content_log(
                    [neighbor_result.self EXCEPT ![i].cache_hits = @ + 1],
                    i, content_id, content, user_id, "Neighbor Hit",
                    <<neighbor_result.ret[1].source_satellite,
                      " (Inter-Satellite)">>,
                    strategy_name, current_time, neighbor_result.victim)
             ELSE request_content_ground(
                    neighbor_result.self, i, content_id, content, user_id,
                    strategy_name, current_time, now) :
             neighbor_result \in
               {request_content_from_neighbor(counted, i, content_id,
                                              content, now)}} :
            TRUE

\* sum(s.total_requests for s in self.satellites)
RECURSIVE constellation_total_requests(_)
constellation_total_requests(satellites) ==
  IF satellites = <<>> THEN 0
  ELSE Head(satellites).total_requests
       + constellation_total_requests(Tail(satellites))

\* requests made of the constellation in a run
MaxConstellationRequests == 3

\* altitudes in km: of a LEO satellite, and of one beyond max_distance of it
Altitudes == {550, 2000}

\* create_leo_constellation with two satellites, which places them at
\* latitude -90 and the longitudes 0 and 180 and gives all the caching
\* strategy `kind`; the second satellite may also have been added by
\* add_satellite at an altitude out of reach
InitConstellation ==
  /\ kind \in Kinds
  /\ \E cache_size \in 1..MaxCapacity, altitude \in Altitudes :
       constellation =
         [env_now |-> 0,
          config |-> [cache_size |-> cache_size],
          satellites |->
            <<ConstellationSatellite_init(
                cache_size, "LEO-1", SatellitePosition(-90, 0, 550), kind),
              ConstellationSatellite_init(
                cache_size, "LEO-2", SatellitePosition(-90, 180, altitude),
                kind)>>]
  /\ last = Call("init", None, None, FALSE, Result(None, <<>>, <<>>, None))
  /\ policy = None
  /\ clock = 0
  /\ touch = EmptyDict
  /\ calls = 0
  /\ node = None
  /\ metrics = None
  /\ NoApplication

\* multi_satellite_request for an id of the catalog: the user's satellite
\* is satellites[hash(user_id) % len(satellites)], any of them
MultiSatelliteRequest(i, content_id, user_id) ==
  /\ last.exc = None
  /\ constellation_total_requests(constellation.satellites)
       < MaxConstellationRequests
  /\ LET satellite == constellation.satellites[i]
         content == Content(get_content_by_id(content_id)[1])
     IN \E r \in {ConstellationSatellite_request_content(
                    constellation.satellites, i, content_id, content,
                    user_id, clock + 1, constellation.env_now)} :
          /\ constellation' = [constellation EXCEPT !.satellites = r.self]
          /\ last' = Call("request_content", content_id, content,
                          call_contains(satellite.caching_strategy,
                                        satellite.cache_policy, content_id),
                          r)
  /\ clock' = clock + 1
  /\ UNCHANGED <<application, kind, policy, touch, calls, node, metrics>>

NextConstellation ==
  \E i \in 1..Len(constellation.satellites), content_id \in CatalogIds,
     user_id \in UserIds :
    MultiSatelliteRequest(i, content_id, user_id)

SpecConstellation == InitConstellation /\ [][NextConstellation]_vars

\* Requests of a node of either mode: a run serves a single SatelliteNode
\* (kind is None) or a constellation whose satellites use the strategy kind
InitRequests == InitNode \/ InitConstellation

NextRequests ==
  \/ kind = None /\ NextNode
  \/ kind # None /\ NextConstellation

SpecRequests == InitRequests /\ [][NextRequests]_vars

\* the outcome a status string stands for: ConstellationSatellite spells
\* its statuses 'Hit', 'Neighbor Hit' and 'Miss'
status_tag(status) ==
  CASE status = "Hit" -> "HIT"
    [] status = "Neighbor Hit" -> "NEIGHBOR_HIT"
    [] status = "Miss" -> "MISS"
    [] OTHER -> status

\* a request_content call on the node `before` that returned `ret`
counted_and_logged(before, after, ret) ==
  /\ Len(before.request_log) = before.total_requests
  /\ after.total_requests = before.total_requests + 1
  /\ after.request_log = Append(before.request_log, ret)
  /\ Len(after.request_log) = after.total_requests
  /\ status_tag(ret.status) \in {"HIT", "NEIGHBOR_HIT", "MISS", "ERROR"}

\* C16: every request_content call, of a SatelliteNode and of a satellite
\* of a constellation, adds exactly 1 to the node's total_requests, appends
\* exactly one entry, the one it returns, to the node's request_log and
\* returns one status out of HIT, NEIGHBOR_HIT, MISS, ERROR; the request
\* log is as long as total_requests before and after the call, and the
\* counters and logs of the other satellites are unchanged.
C16_EveryRequestCountedAndLogged ==
  [][last'.op = "request_content" =>
       /\ last'.exc = None
       /\ IF kind = None
          THEN counted_and_logged(node, node', last'.ret)
          ELSE LET before == constellation.satellites
                   after == constellation'.satellites
               IN \E i \in 1..Len(before) :
                    /\ counted_and_logged(before[i], after[i], last'.ret)
                    /\ \A j \in (1..Len(before)) \ {i} :
                         /\ after[j].total_requests
                              = before[j].total_requests
                         /\ after[j].request_log = before[j].request_log]_vars

\* two satellites of a constellation after three requests: the second one
\* was answered by its neighbor and then by the ground station
C16_Witness ==
  /\ kind # None
  /\ LET first == constellation.satellites[1]
         second == constellation.satellites[2]
     IN /\ first.total_requests = 1
        /\ Len(first.request_log) = 1
        /\ first.request_log[1].status = "Miss"
        /\ second.total_requests = 2
        /\ [n \in 1..Len(second.request_log) |->
              second.request_log[n].status] = <<"Neighbor Hit", "Miss">>

\* C21 as stated: a node's total_content_delivered_mb grows by the size of
\* the content on every HIT and every MISS, is unchanged by an ERROR and
\* never decreases.
C21_DeliveredGrowsOnHitAndMiss ==
  [][last'.op = "request_content" =>
       LET before == node.total_content_delivered_mb
           after == node'.total_content_delivered_mb
           status == last'.ret.status
       IN /\ after >= before
          /\ status \in {"HIT", "MISS"} =>
               after = before + get_content_by_id(last'.content_id)[1].size_mb
          /\ status = "ERROR" => after = before]_vars

\* ------------------------------------ a constellation of five satellites
\* satellite_id = f'LEO-{i+1}'
LeoIds == <<"LEO-1", "LEO-2", "LEO-3", "LEO-4", "LEO-5">>

\* create_leo_constellation: the position of satellite i, counted from 0,
\* of num_satellites; the divisions are exact for the numbers used here
leo_position(i, num_satellites, altitude) ==
  SatellitePosition((((i * 360) \div num_satellites) % 180) - 90,
                    ((i * 360) \div num_satellites) % 360,
                    altitude)

\* altitude = 550 + random.uniform(-50, 50): one draw for each satellite
LeoAltitudes == <<550, 500, 600, 520, 580>>

\* The placements of a run: the one create_leo_constellation makes for
\* num_satellites = 5, the default of the application, where every
\* satellite is within max_distance of every other; and five satellites
\* added by add_satellite, four on a line, where distances tie, and the
\* fifth at an altitude out of reach of the others.
LeoPlacement ==
  [i \in 1..Len(LeoIds) |->
     leo_position(i - 1, Len(LeoIds), LeoAltitudes[i])]
LinePlacement ==
  [i \in 1..Len(LeoIds) |->
     SatellitePosition(0, 10 * (i - 1),
                       IF i = Len(LeoIds) THEN 2000 ELSE 550)]
Placements == {LeoPlacement, LinePlacement}

\* SatelliteConstellation.add_satellite for each position in turn
add_satellites(cache_size, positions, caching_strategy) ==
  [i \in 1..Len(positions) |->
     ConstellationSatellite_init(cache_size, LeoIds[i], positions[i],
                                 caching_strategy)]

InitFleet ==
  /\ kind \in Kinds
  /\ \E cache_size \in 1..MaxCapacity, positions \in Placements :
       constellation =
         [env_now |-> 0,
          config |-> [cache_size |-> cache_size],
          satellites |-> add_satellites(cache_size, positions, kind)]
  /\ last = Call("init", None, None, FALSE, Result(None, <<>>, <<>>, None))
  /\ policy = None
  /\ clock = 0
  /\ touch = EmptyDict
  /\ calls = 0
  /\ node = None
  /\ metrics = None
  /\ NoApplication

\* the ids the users of the five satellites request
FleetIds == {CatalogItems[1].content_id, CatalogItems[2].content_id}

NextFleet ==
  \E i \in 1..Len(constellation.satellites), content_id \in FleetIds,
     user_id \in UserIds :
    MultiSatelliteRequest(i, content_id, user_id)

SpecFleet == InitFleet /\ [][NextFleet]_vars

\* the satellite whose request_content made the step
requester ==
  CHOOSE i \in 1..Len(constellation.satellites) :
    constellation'.satellites[i].total_requests
      # constellation.satellites[i].total_requests

\* the satellite's cache policy answers contains(content_id) with True
holds(satellite, content_id) ==
  call_contains(satellite.caching_strategy, satellite.cache_policy,
                content_id)

holders(satellites, content_id) ==
  {j \in 1..Len(satellites) : holds(satellites[j], content_id)}

\* the squared distance of satellites x and y, and whether it is within the
\* threshold
apart(satellites, x, y) ==
  distance_to(satellites[x].position, satellites[y].position)
within_threshold(satellites, x, y) ==
  apart(satellites, x, y) <= max_distance * max_distance

\* the squared distances of the satellites from satellite x
distances(satellites, x) ==
  [j \in 1..Len(satellites) |-> apart(satellites, x, j)]

\* the satellites other than x that come before y when the satellites are
\* taken by increasing distance from x, satellites at the same distance in
\* the order they were added
nearer(dist, x, y) ==
  {j \in (DOMAIN dist) \ {x, y} :
     \/ dist[j] < dist[y]
     \/ dist[j] = dist[y] /\ j < y}
before_in_reach(satellites, x, y) == nearer(distances(satellites, x), x, y)

\* C22 as stated: when the id is absent from X's cache and cached only on a
\* satellite Y within the threshold distance of X, X's request returns
\* Neighbor Hit with source Y and X's cache holds the id afterwards, for
\* every placement of the satellites.
C22_NeighborHitFromAnyInReach ==
  [][last'.op = "request_content" =>
       \A x \in {requester} :
       \A satellites \in {constellation.satellites} :
       \A dist \in {distances(satellites, x)} :
       \A only \in {holders(satellites, last'.content_id)} :
       \A y \in only \ {x} :
         (/\ only = {y}
          /\ dist[y] <= max_distance * max_distance)
         => /\ last'.ret.status = "Neighbor Hit"
            /\ last'.ret.delivery_source[1] = satellites[y].satellite_id
            /\ holds(constellation'.satellites[x], last'.content_id)]_vars

\* C22, amended: the same when Y is also one of the three satellites
\* nearest to X; when three other satellites come before Y, Y is not asked
\* and the request is a Miss served by the ground station.  Either way X's
\* cache holds the id afterwards.
C22_NeighborHitFromThreeNearest ==
  [][last'.op = "request_content" =>
       \A x \in {requester} :
       \A satellites \in {constellation.satellites} :
       \A dist \in {distances(satellites, x)} :
       \A only \in {holders(satellites, last'.content_id)} :
       \A y \in only \ {x} :
         (/\ only = {y}
          /\ dist[y] <= max_distance * max_distance)
         => /\ last'.exc = None
            /\ IF Cardinality(nearer(dist, x, y)) < 3
               THEN /\ last'.ret.status = "Neighbor Hit"
                    /\ last'.ret.delivery_source[1]
                         = satellites[y].satellite_id
               ELSE /\ last'.ret.status = "Miss"
                    /\ last'.ret.delivery_source = <<"Ground Station">>
            /\ holds(constellation'.satellites[x], last'.content_id)]_vars

\* LEO-1 was answered by LEO-4, the third nearest of its four neighbors
C22_Witness ==
  /\ last.op = "request_content"
  /\ Len(constellation.satellites) = 5
  /\ constellation.satellites[5].position = LeoPlacement[5]
  /\ last.ret.satellite_id = "LEO-1"
  /\ last.ret.status = "Neighbor Hit"
  /\ last.ret.delivery_source[1] = "LEO-4"

\* the satellites request_content_from_neighbor of x asks: those within the
\* threshold that have fewer than three other satellites before them
asked(dist, x) ==
  {y \in (DOMAIN dist) \ {x} :
     /\ dist[y] <= max_distance * max_distance
     /\ Cardinality(nearer(dist, x, y)) < 3}
probed(satellites, x) ==
  UNION {asked(dist, x) : dist \in {distances(satellites, x)}}

\* C23: when the requester's cache does not hold the id, the donor is the
\* nearest of the asked neighbors whose cache holds it (of several at that
\* distance the one added first) and the result is Neighbor Hit with that
\* donor as source; when no asked neighbor holds the id the result is Miss
\* with source Ground Station, cache_misses rises by 1, cache_hits is
\* unchanged and the requester's cache holds the id afterwards.
C23_DonorIsNearestHolder ==
  [][(last'.op = "request_content" /\ ~last'.present) =>
       \A x \in {requester} :
       \A satellites \in {constellation.satellites} :
       \A dist \in {distances(satellites, x)} :
       \A donors \in {asked(dist, x)
                        \cap holders(satellites, last'.content_id)} :
         LET after == constellation'.satellites[x]
         IN /\ last'.exc = None
            /\ IF donors # {}
               THEN /\ last'.ret.status = "Neighbor Hit"
                    /\ \E d \in donors :
                         /\ last'.ret.delivery_source[1]
                              = satellites[d].satellite_id
                         /\ donors \cap nearer(dist, x, d) = {}
               ELSE /\ last'.ret.status = "Miss"
                    /\ last'.ret.delivery_source = <<"Ground Station">>
                    /\ after.cache_misses = satellites[x].cache_misses + 1
                    /\ after.cache_hits = satellites[x].cache_hits
                    /\ holds(after, last'.content_id)]_vars

\* LEO-3 was answered by LEO-5 while LEO-4, farther from it, held the id too
C23_Witness ==
  /\ last.op = "request_content"
  /\ Len(constellation.satellites) = 5
  /\ constellation.satellites[5].position = LeoPlacement[5]
  /\ last.ret.satellite_id = "LEO-3"
  /\ last.ret.status = "Neighbor Hit"
  /\ last.ret.delivery_source[1] = "LEO-5"
  /\ holds(constellation.satellites[4], last.content_id)
  /\ apart(constellation.satellites, 3, 5) < apart(constellation.satellites, 3, 4)

\* ---------------------------------------------- get_nearest_satellites
\* The positions the function is applied to: two to five satellites, each
\* at one of these points.  From the first point the second is at distance
\* 500, the third at 600, the fourth at 1000, which is within max_distance,
\* and the fifth at 1001, which is not; two satellites may share a point.
PositionSamples ==
  {SatellitePosition(0, 0, 550), SatellitePosition(300, 400, 550),
   SatellitePosition(0, 600, 550), SatellitePosition(0, 1000, 550),
   SatellitePosition(0, 1001, 550)}

InitNearest ==
  /\ kind = "LRU"
  /\ \E n \in 2..Len(LeoIds) :
       \E positions \in [1..n -> PositionSamples] :
         constellation =
           [env_now |-> 0,
            config |-> [cache_size |-> 1],
            satellites |-> add_satellites(1, positions, kind)]
  /\ last = [op |-> "init", reference |-> 0, ret |-> <<>>]
  /\ policy = None
  /\ clock = 0
  /\ touch = EmptyDict
  /\ calls = 0
  /\ node = None
  /\ metrics = None
  /\ NoApplication

\* constellation.get_nearest_satellites(satellites[reference])
GetNearestSatellites(reference) ==
  /\ last' = [op |-> "get_nearest_satellites",
              reference |-> reference,
              ret |-> get_nearest_satellites(
                        constellation.satellites,
                        constellation.satellites[reference])]
  /\ UNCHANGED <<application, kind, policy, clock, touch, calls, node,
               metrics,
                 constellation>>

NextNearest ==
  \E reference \in 1..Len(constellation.satellites) :
    GetNearestSatellites(reference)

SpecNearest == InitNearest /\ [][NextNearest]_vars

\* C24: get_nearest_satellites(ref) returns satellites other than ref, each
\* once and each within max_distance of ref, in non-decreasing order of
\* distance, at most 3 of them; no satellite within max_distance that it
\* leaves out is strictly nearer to ref than one it returns, and it leaves
\* one out only when it returns 3.  Distances are compared by their
\* squares.
C24_NearestWithinThreshold ==
  last.op = "get_nearest_satellites" =>
    LET satellites == constellation.satellites
        ref == last.reference
        ret == last.ret
        returned == {ret[n] : n \in 1..Len(ret)}
        in_reach == {y \in (1..Len(satellites)) \ {ref} :
                       within_threshold(satellites, ref, y)}
    IN /\ Len(ret) <= 3
       /\ Cardinality(returned) = Len(ret)
       /\ returned \subseteq in_reach
       /\ \A y \in returned :
            satellites[y].satellite_id # satellites[ref].satellite_id
       /\ \A n \in 1..(Len(ret) - 1) :
            apart(satellites, ref, ret[n])
              <= apart(satellites, ref, ret[n + 1])
       /\ \A out \in in_reach \ returned : \A y \in returned :
            apart(satellites, ref, out) >= apart(satellites, ref, y)
       /\ in_reach \ returned # {} => Len(ret) = 3

\* five satellites, all within max_distance of the reference and not all at
\* the same distance: three are returned and one is left out
C24_Witness ==
  /\ last.op = "get_nearest_satellites"
  /\ Len(constellation.satellites) = 5
  /\ Len(last.ret) = 3
  /\ \A y \in (1..5) \ {last.reference} :
       within_threshold(constellation.satellites, last.reference, y)
  /\ apart(constellation.satellites, last.reference, last.ret[1])
       < apart(constellation.satellites, last.reference, last.ret[3])
  /\ \E out \in (1..5) \ {last.reference} :
       apart(constellation.satellites, last.reference, out)
         > apart(constellation.satellites, last.reference, last.ret[3])

\* the ids of the requests that the satellite's cache holds, and the
\* counters its cache policy reports
cached_ids(satellite) == {id \in FleetIds : holds(satellite, id)}
policy_stats(satellite) ==
  call_get_stats(satellite.caching_strategy, satellite.cache_policy)

\* C25: a request of satellite x changes another satellite only through the
\* donor's own get: on Neighbor Hit the donor is what its cache_policy.get
\* of the id makes of it, its policy's hits rise by 1, the bookkeeping of
\* the policy changes, its cached ids, its evictions and misses and its own
\* request counters stay; every other satellite, asked or not, is
\* unchanged, and on Hit and Miss every satellite but x is unchanged.
C25_NeighborChangedOnlyByOwnGet ==
  [][last'.op = "request_content" =>
       \A x \in {requester} :
       \A satellites \in {constellation.satellites} :
       \A after \in {constellation'.satellites} :
       \A donors \in {IF last'.ret.status = "Neighbor Hit"
                      THEN {d \in (1..Len(satellites)) \ {x} :
                              satellites[d].satellite_id
                                = last'.ret.delivery_source[1]}
                      ELSE {}} :
         /\ last'.ret.status = "Neighbor Hit"
              => Cardinality(donors) = 1
         /\ \A y \in (1..Len(satellites)) \ ({x} \cup donors) :
              after[y] = satellites[y]
         /\ \A d \in donors :
              /\ d \in probed(satellites, x)
              /\ after[d] =
                   [satellites[d] EXCEPT !.cache_policy =
                      call_get(satellites[d].caching_strategy,
                               satellites[d].cache_policy,
                               last'.content_id, clock').self]
              /\ after[d].cache_policy # satellites[d].cache_policy
              /\ policy_stats(after[d]).hits
                   = policy_stats(satellites[d]).hits + 1
              /\ policy_stats(after[d]).misses
                   = policy_stats(satellites[d]).misses
              /\ policy_stats(after[d]).evictions
                   = policy_stats(satellites[d]).evictions
              /\ after[d].cache_evictions = satellites[d].cache_evictions
              /\ cached_ids(after[d]) = cached_ids(satellites[d])]_vars

\* LEO-1 was answered by LEO-3 after LEO-2, nearer and asked first, did not
\* hold the id; LEO-3 holds both ids and its policy has counted the hit
C25_Witness ==
  /\ last.op = "request_content"
  /\ Len(constellation.satellites) = 5
  /\ constellation.satellites[5].position = LeoPlacement[5]
  /\ last.ret.satellite_id = "LEO-1"
  /\ last.ret.status = "Neighbor Hit"
  /\ last.ret.delivery_source[1] = "LEO-3"
  /\ ~holds(constellation.satellites[2], last.content_id)
  /\ policy_stats(constellation.satellites[3]).hits = 1
  /\ cached_ids(constellation.satellites[3]) = FleetIds

\* the counters of every satellite agree
counters_agree(satellites) ==
  \A y \in 1..Len(satellites) :
    /\ satellites[y].total_requests
         = satellites[y].cache_hits + satellites[y].cache_misses
    /\ satellites[y].inter_satellite_hits
         <= satellites[y].inter_satellite_requests
    /\ satellites[y].inter_satellite_requests
         <= satellites[y].total_requests

\* C26: in every reachable state every satellite has total_requests ==
\* cache_hits + cache_misses and inter_satellite_hits <=
\* inter_satellite_requests <= total_requests; a request served from the
\* requester's own cache changes neither inter-satellite counter; a request
\* that asks the neighbors raises inter_satellite_requests by 1, and
\* inter_satellite_hits by 1 exactly on Neighbor Hit, and leaves the hits
\* and misses of the requester's cache policy as they were.
C26_CountersAgree ==
  /\ counters_agree(constellation.satellites)
  /\ [][/\ counters_agree(constellation'.satellites)
        /\ last'.op = "request_content" =>
             LET before == constellation.satellites[requester]
                 after == constellation'.satellites[requester]
             IN IF last'.present
                THEN /\ last'.ret.status = "Hit"
                     /\ after.inter_satellite_requests
                          = before.inter_satellite_requests
                     /\ after.inter_satellite_hits
                          = before.inter_satellite_hits
                ELSE /\ after.inter_satellite_requests
                          = before.inter_satellite_requests + 1
                     /\ after.inter_satellite_hits
                          = before.inter_satellite_hits
                              + (IF last'.ret.status = "Neighbor Hit"
                                 THEN 1 ELSE 0)
                     /\ policy_stats(after).hits = policy_stats(before).hits
                     /\ policy_stats(after).misses
                          = policy_stats(before).misses]_vars

\* a satellite has been answered by a neighbor and then by its own cache:
\* two requests, two hits, one inter-satellite request and hit
C26_Witness ==
  \E y \in 1..Len(constellation.satellites) :
    /\ constellation.satellites[y].total_requests = 2
    /\ constellation.satellites[y].cache_hits = 2
    /\ constellation.satellites[y].cache_misses = 0
    /\ constellation.satellites[y].inter_satellite_requests = 1
    /\ constellation.satellites[y].inter_satellite_hits = 1
    /\ last.ret.status = "Hit"
    /\ last.ret.satellite_id = constellation.satellites[y].satellite_id

\* C27: a cache policy or a node with capacity <= 0 is rejected when it is
\* constructed, so no get or put runs on a cache whose capacity is <= 0.
C27_NoCallOnCapacityAtMostZero ==
  last.op \in {"get", "put"} => policy.capacity > 0

\* C28: every get, put and contains call of every strategy returns, for
\* every capacity the constructor accepts, 0 included: the search of
\* LFUCache.put for the bucket of min_frequency ends.
C28_EveryCallTerminates ==
  last.op \in {"get", "put", "contains"} => last.exc # "NonTermination"

\* ------------------------------------------ two requests at the same time
\* run.py serves the application with app.run(debug=True), whose server
\* handles every request in a thread of its own; no lock is taken around
\* satellite.request_content.  Two server threads run request_content on
\* the same ConstellationSatellite, the only one of its constellation, with
\* an LRUCache; a thread may be suspended between any two statements, and
\* inside `x += n` between the read of x and the write.  `calls` holds the
\* frame of each thread: its position pc, the id it requests, the value it
\* read for an augmented assignment (reg), its locals status,
\* before_evictions and after_evictions, the requests it has started and
\* finished, and the exception that ended one.  Times are the value of
\* clock, which these steps leave alone.
Threads == {1, 2}

InitThreads ==
  /\ kind = "LRU"
  /\ \E cache_size \in 1..MaxCapacity :
       constellation =
         [env_now |-> 0,
          config |-> [cache_size |-> cache_size],
          satellites |->
            <<ConstellationSatellite_init(
                cache_size, LeoIds[1], leo_position(0, 1, LeoAltitudes[1]),
                kind)>>]
  /\ calls = [t \in Threads |->
                [pc |-> "idle", content_id |-> None, reg |-> 0,
                 status |-> None, before_evictions |-> 0,
                 after_evictions |-> 0, started |-> 0, finished |-> 0,
                 exc |-> None]]
  /\ last = Call("init", None, None, FALSE, Result(None, <<>>, <<>>, None))
  /\ policy = None
  /\ clock = 0
  /\ touch = EmptyDict
  /\ node = None
  /\ metrics = None
  /\ NoApplication

\* The statements of one request in the order a thread runs them, by
\* position: ConstellationSatellite.request_content (lines 100-161), with
\* request_content_from_neighbor for a satellite that has no neighbor
\* (line 97) and LRUCache.get and LRUCache.put inlined.  `of` is the
\* counter of an augmented assignment, on the satellite or on its
\* cache_policy, and `by` what is added to it.
Program ==
  [total_requests_load |->        \* self.total_requests += 1
     [op |-> "load", of |-> <<"total_requests">>,
      next |-> "total_requests_store"],
   total_requests_store |->
     [op |-> "store", of |-> <<"total_requests">>, by |-> "one",
      status |-> None, next |-> "contains"],
   contains |->                   \* if self.cache_policy.contains(content_id)
     [op |-> "in", then |-> "get_in", else |-> "inter_satellite_load"],
   get_in |->                     \* get: if content_id in self.cache
     [op |-> "in", then |-> "get_getitem", else |-> "misses_load"],
   get_getitem |->                \* item = self.cache[content_id]; item...
     [op |-> "getitem", next |-> "get_move_to_end"],
   get_move_to_end |->            \* self.cache.move_to_end(content_id)
     [op |-> "move_to_end", next |-> "hits_load"],
   hits_load |->                  \* self.hits += 1; return item.content
     [op |-> "load", of |-> <<"cache_policy", "hits">>,
      next |-> "hits_store"],
   hits_store |->
     [op |-> "store", of |-> <<"cache_policy", "hits">>, by |-> "one",
      status |-> None, next |-> "cache_hits_load"],
   misses_load |->                \* self.misses += 1; return None
     [op |-> "load", of |-> <<"cache_policy", "misses">>,
      next |-> "misses_store"],
   misses_store |->
     [op |-> "store", of |-> <<"cache_policy", "misses">>, by |-> "one",
      status |-> None, next |-> "cache_hits_load"],
   cache_hits_load |->            \* self.cache_hits += 1; status = 'Hit'
     [op |-> "load", of |-> <<"cache_hits">>, next |-> "cache_hits_store"],
   cache_hits_store |->
     [op |-> "store", of |-> <<"cache_hits">>, by |-> "one",
      status |-> "Hit", next |-> "total_content_delivered_load"],
   inter_satellite_load |->       \* self.inter_satellite_requests += 1
     [op |-> "load", of |-> <<"inter_satellite_requests">>,
      next |-> "inter_satellite_store"],
   inter_satellite_store |->
     [op |-> "store", of |-> <<"inter_satellite_requests">>, by |-> "one",
      status |-> None, next |-> "cache_misses_load"],
   cache_misses_load |->          \* self.cache_misses += 1; status = 'Miss'
     [op |-> "load", of |-> <<"cache_misses">>,
      next |-> "cache_misses_store"],
   cache_misses_store |->
     [op |-> "store", of |-> <<"cache_misses">>, by |-> "one",
      status |-> "Miss", next |-> "before_evictions"],
   before_evictions |->           \* before_evictions = ...get_stats()...
     [op |-> "evictions", next |-> "put_in"],
   put_in |->                     \* put: if content_id in self.cache
     [op |-> "in", then |-> "put_getitem", else |-> "put_len"],
   put_getitem |->                \* item = self.cache[content_id]; item...
     [op |-> "getitem", next |-> "put_move_to_end"],
   put_move_to_end |->            \* self.cache.move_to_end(content_id)
     [op |-> "move_to_end", next |-> "after_evictions"],
   put_len |->                    \* if len(self.cache) >= self.capacity
     [op |-> "len", then |-> "put_popitem", else |-> "put_setitem"],
   put_popitem |->                \* self.cache.popitem(last=False)
     [op |-> "popitem", next |-> "evictions_load"],
   evictions_load |->             \* self.evictions += 1
     [op |-> "load", of |-> <<"cache_policy", "evictions">>,
      next |-> "evictions_store"],
   evictions_store |->
     [op |-> "store", of |-> <<"cache_policy", "evictions">>, by |-> "one",
      status |-> None, next |-> "put_setitem"],
   put_setitem |->                \* self.cache[content_id] = item
     [op |-> "setitem", next |-> "after_evictions"],
   after_evictions |->            \* after_evictions = ...; if after > before
     [op |-> "evictions", next |-> "evicted"],
   evicted |->
     [op |-> "evicted", then |-> "cache_evictions_load",
      else |-> "total_content_delivered_load"],
   cache_evictions_load |->       \* self.cache_evictions += (after - before)
     [op |-> "load", of |-> <<"cache_evictions">>,
      next |-> "cache_evictions_store"],
   cache_evictions_store |->
     [op |-> "store", of |-> <<"cache_evictions">>, by |-> "evictions",
      status |-> None, next |-> "total_content_delivered_load"],
   total_content_delivered_load |->  \* self.total_content_delivered += ...
     [op |-> "load", of |-> <<"total_content_delivered">>, next |-> "log"],
   log |->                        \* ...; self.request_log.append(log_entry)
     [op |-> "log"]]

\* the satellite the threads share, the statement thread t is at, and what
\* one statement of thread t leaves: the thread's frame and the satellite
shared == constellation.satellites[1]

at(t, op) ==
  /\ calls[t].pc \in DOMAIN Program
  /\ Program[calls[t].pc].op = op

statement(t, frame, satellite) ==
  /\ calls' = [calls EXCEPT ![t] = frame]
  /\ constellation' = [constellation EXCEPT !.satellites[1] = satellite]
  /\ UNCHANGED <<application, kind, policy, clock, last, touch, node,
               metrics>>

\* the call returns: its locals are gone
return(t) ==
  [calls[t] EXCEPT !.pc = "idle", !.content_id = None, !.reg = 0,
                   !.status = None, !.before_evictions = 0,
                   !.after_evictions = 0]

\* the statement raises: the handler ends with the exception
raise(t, exc) == [return(t) EXCEPT !.exc = exc]

\* multi_satellite_request calls satellite.request_content
ThreadRequest(t, content_id) ==
  /\ calls[t].pc = "idle"
  /\ calls[1].started + calls[2].started < MaxConstellationRequests
  /\ get_nearest_satellites(constellation.satellites, shared) = <<>>
  /\ statement(t, [calls[t] EXCEPT !.pc = "total_requests_load",
                                   !.content_id = content_id,
                                   !.status = None,
                                   !.started = @ + 1],
               shared)

\* `x += n`: the read of x
AugmentedLoad(t) ==
  /\ at(t, "load")
  /\ LET of == Program[calls[t].pc].of
     IN statement(t, [calls[t] EXCEPT !.pc = Program[calls[t].pc].next,
                                      !.reg = IF Len(of) = 1
                                              THEN shared[of[1]]
                                              ELSE shared[of[1]][of[2]]],
                  shared)

\* `x += n`: the write of the value read plus n
AugmentedStore(t) ==
  /\ at(t, "store")
  /\ LET here == Program[calls[t].pc]
         value == calls[t].reg
                    + (IF here.by = "one" THEN 1
                       ELSE calls[t].after_evictions
                              - calls[t].before_evictions)
     IN statement(t, [calls[t] EXCEPT !.pc = here.next,
                                      !.status = IF here.status = None
                                                 THEN @ ELSE here.status],
                  IF Len(here.of) = 1
                  THEN [shared EXCEPT ![here.of[1]] = value]
                  ELSE [shared EXCEPT ![here.of[1]][here.of[2]] = value])

\* content_id in self.cache
InCache(t) ==
  /\ at(t, "in")
  /\ statement(t,
               [calls[t] EXCEPT !.pc =
                  IF calls[t].content_id \in od_keys(shared.cache_policy.cache)
                  THEN Program[calls[t].pc].then
                  ELSE Program[calls[t].pc].else],
               shared)

\* item = self.cache[content_id]; item.last_access_time = ...
Getitem(t) ==
  /\ at(t, "getitem")
  /\ IF calls[t].content_id \in od_keys(shared.cache_policy.cache)
     THEN statement(t, [calls[t] EXCEPT !.pc = Program[calls[t].pc].next],
            [shared EXCEPT !.cache_policy.cache =
               od_setitem(@, [od_getitem(@, calls[t].content_id)
                                EXCEPT !.last_access_time = clock])])
     ELSE statement(t, raise(t, "KeyError"), shared)

\* self.cache.move_to_end(content_id)
MoveToEnd(t) ==
  /\ at(t, "move_to_end")
  /\ IF calls[t].content_id \in od_keys(shared.cache_policy.cache)
     THEN statement(t, [calls[t] EXCEPT !.pc = Program[calls[t].pc].next],
            [shared EXCEPT !.cache_policy.cache =
               od_move_to_end(@, od_getitem(@, calls[t].content_id))])
     ELSE statement(t, raise(t, "KeyError"), shared)

\* before_evictions, after_evictions =
\*   self.cache_policy.get_stats().get('evictions', 0)
ReadEvictions(t) ==
  /\ at(t, "evictions")
  /\ statement(t,
       IF calls[t].pc = "before_evictions"
       THEN [calls[t] EXCEPT !.pc = Program[calls[t].pc].next,
                             !.before_evictions =
                               shared.cache_policy.evictions]
       ELSE [calls[t] EXCEPT !.pc = Program[calls[t].pc].next,
                             !.after_evictions =
                               shared.cache_policy.evictions],
       shared)

\* if after_evictions > before_evictions:
Evicted(t) ==
  /\ at(t, "evicted")
  /\ statement(t,
               [calls[t] EXCEPT !.pc =
                  IF calls[t].after_evictions > calls[t].before_evictions
                  THEN Program[calls[t].pc].then
                  ELSE Program[calls[t].pc].else],
               shared)

\* if len(self.cache) >= self.capacity:
PutLen(t) ==
  /\ at(t, "len")
  /\ statement(t,
               [calls[t] EXCEPT !.pc =
                  IF Len(shared.cache_policy.cache)
                       >= shared.cache_policy.capacity
                  THEN Program[calls[t].pc].then
                  ELSE Program[calls[t].pc].else],
               shared)

\* self.cache.popitem(last=False)
PutPopitem(t) ==
  /\ at(t, "popitem")
  /\ IF shared.cache_policy.cache # <<>>
     THEN statement(t, [calls[t] EXCEPT !.pc = Program[calls[t].pc].next],
                    [shared EXCEPT !.cache_policy.cache = Tail(@)])
     ELSE statement(t, raise(t, "KeyError"), shared)

\* item = CacheItem(...); self.cache[content_id] = item
PutSetitem(t) ==
  /\ at(t, "setitem")
  /\ statement(t, [calls[t] EXCEPT !.pc = Program[calls[t].pc].next],
       [shared EXCEPT !.cache_policy.cache =
          od_setitem(@, CacheItem(calls[t].content_id,
                                  Content(get_content_by_id(
                                            calls[t].content_id)[1]),
                                  0, clock, clock))])

\* the write of total_content_delivered, the log entry,
\* self.request_log.append(log_entry) and the return
LogAppend(t) ==
  /\ at(t, "log")
  /\ LET content == Content(get_content_by_id(calls[t].content_id)[1])
         r == request_content_log(
                <<[shared EXCEPT !.total_content_delivered = calls[t].reg]>>,
                1, calls[t].content_id, content, "user_1", calls[t].status,
                IF calls[t].status = "Hit"
                THEN <<shared.satellite_id, " Cache">>
                ELSE <<"Ground Station">>,
                "LRU", constellation.env_now, <<>>)
     IN statement(t, [return(t) EXCEPT !.finished = @ + 1], r.self[1])

NextThreads ==
  \E t \in Threads :
    \/ \E content_id \in FleetIds : ThreadRequest(t, content_id)
    \/ AugmentedLoad(t) \/ AugmentedStore(t)
    \/ InCache(t) \/ Getitem(t) \/ MoveToEnd(t)
    \/ ReadEvictions(t) \/ Evicted(t)
    \/ PutLen(t) \/ PutPopitem(t) \/ PutSetitem(t)
    \/ LogAppend(t)

SpecThreads == InitThreads /\ [][NextThreads]_vars

\* C29: two requests that the server runs at the same time against one
\* node take turns on its cache, so the cache never holds more entries than
\* its capacity, no request ends in an exception, and when no request is in
\* progress the counters are those of the requests served: total_requests
\* is their number, cache_hits + cache_misses too, and each has its entry
\* in request_log.
C29_RequestsTakeTurns ==
  /\ Len(shared.cache_policy.cache) <= shared.cache_policy.capacity
  /\ \A t \in Threads : calls[t].exc = None
  /\ (\A t \in Threads : calls[t].pc = "idle") =>
       /\ shared.total_requests = calls[1].started + calls[2].started
       /\ shared.cache_hits + shared.cache_misses = shared.total_requests
       /\ Len(shared.request_log) = shared.total_requests

\* ------------------------------------------- _create_constellation_cache
\* A strategy name as the caller writes it is a sequence of characters;
\* a missing name (None) is <<>> and a given one <<name>>.
LowerLetters ==
  <<"a", "b", "c", "d", "e", "f", "g", "h", "i", "j", "k", "l", "m",
    "n", "o", "p", "q", "r", "s", "t", "u", "v", "w", "x", "y", "z">>
UpperLetters ==
  <<"A", "B", "C", "D", "E", "F", "G", "H", "I", "J", "K", "L", "M",
    "N", "O", "P", "Q", "R", "S", "T", "U", "V", "W", "X", "Y", "Z">>

str_upper_noop(s) == s

\* str.upper(): a lower-case letter becomes its capital, every other
\* character stays
str_upper(s) ==
  [i \in 1..Len(s) |->
     IF \E j \in 1..Len(LowerLetters) : LowerLetters[j] = s[i]
     THEN UpperLetters[CHOOSE j \in 1..Len(LowerLetters) :
                         LowerLetters[j] = s[i]]
     ELSE s[i]]

\* the string literals of the comparisons
Literals ==
  [LRU |-> <<"L", "R", "U">>,
   LFU |-> <<"L", "F", "U">>,
   FIFO |-> <<"F", "I", "F", "O">>,
   ADAPTIVE |-> <<"A", "D", "A", "P", "T", "I", "V", "E">>]

\* _create_constellation_cache(strategy, capacity): the class of the
\* object it returns and the object
create_constellation_cache_named(strategy, capacity) ==
  LET s == str_upper(IF strategy = <<>> \/ strategy[1] = <<>>
                     THEN Literals.LRU
                     ELSE strategy[1])
      class == IF s = Literals.LRU THEN "LRU"
               ELSE IF s = Literals.LFU THEN "LFU"
               ELSE IF s = Literals.FIFO THEN "FIFO"
               ELSE IF s = Literals.ADAPTIVE THEN "ADAPTIVE"
               ELSE "LRU"
  IN [class |-> class,
      self |-> create_constellation_cache(class, capacity),
      exc |-> None]

\* The names the factory is called with: every spelling in capitals and
\* small letters of the four names, the same followed by a space, other
\* words, the empty string and no name.
spellings(literal) ==
  {[i \in 1..Len(literal) |->
      IF capital[i] THEN literal[i]
      ELSE LowerLetters[CHOOSE j \in 1..Len(UpperLetters) :
                          UpperLetters[j] = literal[i]]] :
     capital \in [1..Len(literal) -> BOOLEAN]}

RecognizedNames ==
  spellings(Literals.LRU) \cup spellings(Literals.LFU)
    \cup spellings(Literals.FIFO) \cup spellings(Literals.ADAPTIVE)

StrategyArguments ==
  {<<>>} \cup
  {<<name>> : name \in
     RecognizedNames
       \cup {Append(recognized, " ") : recognized \in RecognizedNames}
       \cup spellings(<<"M", "R", "U">>) \cup spellings(<<"F", "I", "F">>)
       \cup {<<>>, <<" ">>, <<"L", "R", "U", "2">>,
             <<"l", "f", "u", "-", "1">>, <<" ", "f", "i", "f", "o">>,
             <<"r", "a", "n", "d", "o", "m">>, <<"A", "D", "A", "P", "T">>}}

InitFactory ==
  /\ \E strategy \in StrategyArguments, capacity \in 1..MaxCapacity :
       last = [op |-> "init", strategy |-> strategy, capacity |-> capacity,
               exc |-> None]
  /\ kind = None
  /\ policy = None
  /\ clock = 0
  /\ touch = EmptyDict
  /\ calls = 0
  /\ node = None
  /\ metrics = None
  /\ constellation = None
  /\ NoApplication

\* self.cache_policy = _create_constellation_cache(caching_strategy,
\* cache_size); kind is the class of the object
CreateConstellationCache ==
  /\ last.op = "init"
  /\ \E r \in {create_constellation_cache_named(last.strategy,
                                                last.capacity)} :
       /\ kind' = r.class
       /\ policy' = r.self
       /\ last' = [last EXCEPT !.op = "create_constellation_cache",
                               !.exc = r.exc]
  /\ UNCHANGED <<application, clock, touch, calls, node, metrics,
               constellation>>

NextFactory == CreateConstellationCache

SpecFactory == InitFactory /\ [][NextFactory]_vars

\* a is b written with other capitals and small letters
same_but_for_case(a, b) ==
  /\ Len(a) = Len(b)
  /\ \A i \in 1..Len(a) :
       \/ a[i] = b[i]
       \/ \E j \in 1..Len(LowerLetters) :
            {a[i], b[i]} = {LowerLetters[j], UpperLetters[j]}

\* C30: the factory returns the cache of the strategy whose name (LRU, LFU,
\* FIFO, ADAPTIVE) the given name is, whatever its capitals and small
\* letters, and an LRU cache for every other name, for the empty name and
\* for no name; it does not fail.
C30_FactoryIgnoresCase ==
  last.op = "create_constellation_cache" =>
    LET given == IF last.strategy = <<>> THEN <<>> ELSE last.strategy[1]
        named(literal) == same_but_for_case(given, literal)
        expected == IF named(Literals.LFU) THEN "LFU"
                    ELSE IF named(Literals.FIFO) THEN "FIFO"
                    ELSE IF named(Literals.ADAPTIVE) THEN "ADAPTIVE"
                    ELSE "LRU"
    IN /\ last.exc = None
       /\ kind = expected
       /\ policy = construct(expected, last.capacity)

\* 'Adaptive', as the application's comment spells it, made an
\* AdaptiveCache
C30_Witness ==
  /\ last.op = "create_constellation_cache"
  /\ last.strategy = <<<<"A", "d", "a", "p", "t", "i", "v", "e">>>>
  /\ kind = "ADAPTIVE"
  /\ policy = AdaptiveCache_init(last.capacity)

C33_PutKeepsHitsAndMisses ==
  [][\A before \in {call_get_stats(kind, policy)} :
     \A after \in {call_get_stats(kind, policy')} :
       last'.op \in {"put", "contains"} =>
         /\ after.hits = before.hits
         /\ after.misses = before.misses]_vars

\* the number of requests of the log that returned one of the statuses
results(self, statuses) ==
  Cardinality({i \in 1..Len(self.request_log) :
                 self.request_log[i].status \in statuses})

\* C34: in single-node mode the node's total_requests is cache.hits +
\* cache.misses in every state, cache.hits is the number of HIT results and
\* cache.misses the number of MISS results plus the number of ERROR results.
C34_NodeCountersAgree ==
  /\ node.total_requests = node.cache.hits + node.cache.misses
  /\ node.cache.hits = results(node, {"HIT"})
  /\ node.cache.misses = results(node, {"MISS"}) + results(node, {"ERROR"})

\* a HIT, a MISS and an ERROR have been returned
C34_Witness ==
  /\ results(node, {"HIT"}) > 0
  /\ results(node, {"MISS"}) > 0
  /\ results(node, {"ERROR"}) > 0

\* the get calls an Adaptive policy has counted and the hits and misses of
\* its three caches
adaptive_hits(self) ==
  self.lru_cache.hits + self.lfu_cache.hits + self.fifo_cache.hits
adaptive_misses(self) ==
  self.lru_cache.misses + self.lfu_cache.misses + self.fifo_cache.misses

\* C35: in constellation mode the misses counter of every satellite's cache
\* policy is 0 in every state: a policy's get is called only after its
\* contains returned true; the request_count of an Adaptive policy is the
\* number of its hits.
C35_PolicyMissesStayZero ==
  \A y \in 1..Len(constellation.satellites) :
    \A satellite \in {constellation.satellites[y]} :
      /\ policy_stats(satellite).misses = 0
      /\ satellite.caching_strategy = "ADAPTIVE" =>
           /\ adaptive_misses(satellite.cache_policy) = 0
           /\ satellite.cache_policy.request_count
                = adaptive_hits(satellite.cache_policy)
           /\ satellite.cache_policy.request_count
                = policy_stats(satellite).hits

\* a satellite with an Adaptive policy has counted a Miss and a Hit of its
\* own and has answered a neighbor: its policy has served two gets
C35_Witness ==
  /\ kind = "ADAPTIVE"
  /\ \E y \in 1..Len(constellation.satellites) :
       /\ constellation.satellites[y].cache_misses = 1
       /\ constellation.satellites[y].cache_hits = 1
       /\ constellation.satellites[y].inter_satellite_hits = 0
       /\ constellation.satellites[y].cache_policy.request_count = 2
       /\ \E z \in (1..Len(constellation.satellites)) \ {y} :
            /\ constellation.satellites[z].inter_satellite_hits = 1
            /\ constellation.satellites[y].cache_policy.lru_cache.hits = 2

\* C36: the cache_evictions counter of every satellite is the evictions
\* counter of its cache policy in every state, also after a request that a
\* neighbor answered and that stored the content in the satellite's cache.
C36_NodeEvictionsAreThePolicys ==
  \A y \in 1..Len(constellation.satellites) :
    constellation.satellites[y].cache_evictions
      = policy_stats(constellation.satellites[y]).evictions

\* ------------------------------------------------------ start_simulation
\* app.py keeps `running` and `current_session` in the dictionary
\* simulation_state and the SimulationSession rows in the database.  The
\* server of run.py handles every request in a thread of its own and
\* start_simulation takes no lock, so a handler may be suspended between
\* any two statements.  `calls` holds the frame of each handler (its
\* position pc, the id of the session it created, what it returned) and
\* the background threads that were started, in the order of their start,
\* each with its position: "run" until env.run returns or raises, then
\* "persist", then "done".
MaxStartRequests == 3

InitSimulation ==
  /\ simulation_state = [running |-> FALSE, current_session |-> <<>>]
  /\ db = [SimulationSession |-> <<>>]
  /\ calls = [handlers |-> [t \in Threads |->
                              [pc |-> "idle", session |-> <<>>,
                               ret |-> None]],
              started |-> 0,
              threads |-> <<>>]
  /\ last = [op |-> "init", thread |-> 0]
  /\ collaboration_manager = None
  /\ kind = None
  /\ policy = None
  /\ clock = 0
  /\ touch = EmptyDict
  /\ node = None
  /\ metrics = None
  /\ constellation = None

\* what the application's handlers leave alone
others ==
  <<kind, policy, clock, touch, node, metrics, constellation,
    collaboration_manager>>

\* what one statement of handler t leaves
handler_statement(t, op, frame) ==
  /\ calls' = [calls EXCEPT !.handlers[t] = frame]
  /\ last' = [op |-> op, thread |-> t]

\* POST /start_simulation reaches the handler
StartSimulation(t) ==
  /\ calls.handlers[t].pc = "idle"
  /\ calls.started < MaxStartRequests
  /\ calls' = [calls EXCEPT !.handlers[t] = [pc |-> "check_running",
                                             session |-> <<>>,
                                             ret |-> None],
                            !.started = @ + 1]
  /\ last' = [op |-> "start_simulation", thread |-> t]
  /\ UNCHANGED <<others, simulation_state, db>>

\* if simulation_state['running']: return jsonify({'error': ...})
CheckRunning(t) ==
  /\ calls.handlers[t].pc = "check_running"
  /\ IF simulation_state.running
     THEN handler_statement(t, "return",
                            [calls.handlers[t] EXCEPT !.pc = "idle",
                                                      !.ret = "error"])
     ELSE handler_statement(t, "check_running",
                            [calls.handlers[t] EXCEPT !.pc = "commit"])
  /\ UNCHANGED <<others, simulation_state, db>>

\* session = SimulationSession(..., status='running');
\* db.session.add(session); db.session.commit()
CommitSession(t) ==
  /\ calls.handlers[t].pc = "commit"
  /\ LET id == Len(db.SimulationSession) + 1
     IN /\ db' = [db EXCEPT !.SimulationSession =
                    Append(@, [id |-> id, status |-> "running"])]
        /\ handler_statement(t, "commit",
                             [calls.handlers[t] EXCEPT !.pc = "set_running",
                                                       !.session = <<id>>])
  /\ UNCHANGED <<others, simulation_state>>

\* simulation_state['running'] = True
SetRunning(t) ==
  /\ calls.handlers[t].pc = "set_running"
  /\ simulation_state' = [simulation_state EXCEPT !.running = TRUE]
  /\ handler_statement(t, "set_running",
                       [calls.handlers[t] EXCEPT !.pc = "set_session"])
  /\ UNCHANGED <<others, db>>

\* simulation_state['current_session'] = session.id
SetCurrentSession(t) ==
  /\ calls.handlers[t].pc = "set_session"
  /\ simulation_state' =
       [simulation_state EXCEPT !.current_session = calls.handlers[t].session]
  /\ handler_statement(t, "set_session",
                       [calls.handlers[t] EXCEPT !.pc = "thread_start"])
  /\ UNCHANGED <<others, db>>

\* thread = threading.Thread(target=run_simulation_background, ...);
\* thread.start(); return jsonify({'success': True, 'session_id': ...})
ThreadStart(t) ==
  /\ calls.handlers[t].pc = "thread_start"
  /\ calls' = [calls EXCEPT
                 !.handlers[t] = [@ EXCEPT !.pc = "idle",
                                           !.ret = "success"],
                 !.threads = Append(@, [pc |-> "run", exc |-> None])]
  /\ last' = [op |-> "thread_start", thread |-> t]
  /\ UNCHANGED <<others, simulation_state, db>>

\* run_simulation_background up to `simulation_state['running'] = False`:
\* env.run returns (line 224), or a statement of the try block raises, as
\* env.run does for a simulation_duration <= 0, and the handler of line
\* 260 runs (line 262)
RunSimulationBackground(b, raises) ==
  /\ calls.threads[b].pc = "run"
  /\ simulation_state' = [simulation_state EXCEPT !.running = FALSE]
  /\ calls' = [calls EXCEPT !.threads[b] =
                 IF raises THEN [pc |-> "done", exc |-> "Exception"]
                 ELSE [pc |-> "persist", exc |-> None]]
  /\ last' = [op |-> "run_simulation_background", thread |-> b]
  /\ UNCHANGED <<others, db>>

\* session_id = simulation_state.get('current_session'); ...
\* sim_session.status = 'completed'; db.session.commit()
PersistResults(b) ==
  /\ calls.threads[b].pc = "persist"
  /\ db' = IF simulation_state.current_session = <<>>
           THEN db
           ELSE [db EXCEPT !.SimulationSession[
                             simulation_state.current_session[1]].status =
                   "completed"]
  /\ calls' = [calls EXCEPT !.threads[b].pc = "done"]
  /\ last' = [op |-> "persist", thread |-> b]
  /\ UNCHANGED <<others, simulation_state>>

NextSimulation ==
  \/ \E t \in Threads :
       \/ StartSimulation(t) \/ CheckRunning(t) \/ CommitSession(t)
       \/ SetRunning(t) \/ SetCurrentSession(t) \/ ThreadStart(t)
  \/ \E b \in 1..Len(calls.threads), raises \in BOOLEAN :
       RunSimulationBackground(b, raises)
  \/ \E b \in 1..Len(calls.threads) : PersistResults(b)

SpecSimulation == InitSimulation /\ [][NextSimulation]_vars

\* the background threads that are in their simulation run
simulations == {b \in 1..Len(calls.threads) : calls.threads[b].pc = "run"}

\* C38: at most one background simulation runs at a time: a
\* start_simulation that finds running true returns the error and creates
\* no session and starts no thread, also when two calls overlap; running
\* is false when the background run has finished or failed.
C38_AtMostOneSimulation ==
  /\ Cardinality(simulations) <= 1
  /\ simulations = {} /\ (\A t \in Threads : calls.handlers[t].pc = "idle")
       => ~simulation_state.running
  /\ \A t \in Threads :
       calls.handlers[t].ret = "error" => calls.handlers[t].session = <<>>

\* -------------------------------------------------- CollaborationManager
\* Python dictionaries are functions on their keys; an optional value is
\* <<>> or <<value>>; the rate hit_rate is kept as the pair of the
\* numbers it is the quotient of.
CollaborationManager_init ==
  [active_sessions |-> EmptyDict, user_sessions |-> EmptyDict,
   session_cache_state |-> EmptyDict]

create_session(self, session_id, creator_id) ==
  [self EXCEPT
     !.active_sessions =
       dict_set(@, session_id,
                [session_id |-> session_id,
                 creator_id |-> creator_id,
                 participants |-> <<creator_id>>,
                 status |-> "active",
                 cache_state |-> <<>>,
                 request_history |-> <<>>,
                 performance_metrics |->
                   [total_requests |-> 0, cache_hits |-> 0,
                    cache_misses |-> 0, hit_rate |-> <<0, 1>>]]),
     !.user_sessions = dict_set(@, creator_id, session_id)]

get_user_session(self, user_id) ==
  IF user_id \in DOMAIN self.user_sessions
  THEN <<self.user_sessions[user_id]>>
  ELSE <<>>

\* add_request(session_id, request_data): the status is compared with the
\* literal 'HIT'
add_request(self, session_id, request_data) ==
  IF session_id \in DOMAIN self.active_sessions
  THEN LET session == self.active_sessions[session_id]
           metrics_ == session.performance_metrics
           hit == request_data.status = "HIT"
           hits == metrics_.cache_hits + (IF hit THEN 1 ELSE 0)
           total == metrics_.total_requests + 1
       IN [self EXCEPT
             !.active_sessions[session_id] =
               [session EXCEPT
                  !.request_history = Append(@, request_data),
                  !.performance_metrics =
                    [total_requests |-> total,
                     cache_hits |-> hits,
                     cache_misses |->
                       metrics_.cache_misses + (IF hit THEN 0 ELSE 1),
                     hit_rate |-> <<hits, total>>]]]
  ELSE self

update_cache_state(self, session_id, cache_state) ==
  IF session_id \in DOMAIN self.active_sessions
  THEN [self EXCEPT
          !.active_sessions[session_id].cache_state = <<cache_state>>,
          !.session_cache_state = dict_set(@, session_id, cache_state)]
  ELSE self

\* the user of the browser, current_user.id, who has created a
\* collaboration session or has not
current_user == 1

InitCollaboration ==
  /\ kind \in Kinds
  /\ \E cache_size \in 1..MaxCapacity, positions \in Placements :
       constellation =
         [env_now |-> 0,
          config |-> [cache_size |-> cache_size],
          satellites |-> add_satellites(cache_size, positions, kind)]
  /\ collaboration_manager \in
       {CollaborationManager_init,
        create_session(CollaborationManager_init, "session_1",
                       current_user)}
  /\ simulation_state = None
  /\ db = None
  /\ last = Call("init", None, None, FALSE, Result(None, <<>>, <<>>, None))
  /\ policy = None
  /\ clock = 0
  /\ touch = EmptyDict
  /\ calls = 0
  /\ node = None
  /\ metrics = None

\* multi_satellite_request for an id of the catalog by a user who may be
\* in a collaboration session: the request, then add_request and
\* update_cache_state on the user's session
CollaborationRequest(i, content_id, user_id) ==
  /\ last.exc = None
  /\ constellation_total_requests(constellation.satellites)
       < MaxConstellationRequests
  /\ LET satellite == constellation.satellites[i]
         content == Content(get_content_by_id(content_id)[1])
     IN \E r \in {ConstellationSatellite_request_content(
                    constellation.satellites, i, content_id, content,
                    user_id, clock + 1, constellation.env_now)} :
          /\ constellation' = [constellation EXCEPT !.satellites = r.self]
          /\ last' = Call("request_content", content_id, content,
                          call_contains(satellite.caching_strategy,
                                        satellite.cache_policy, content_id),
                          r)
          /\ \E user_session_id \in
                  {get_user_session(collaboration_manager, current_user)} :
               collaboration_manager' =
                 IF r.exc = None /\ user_session_id # <<>>
                 THEN update_cache_state(
                        add_request(collaboration_manager,
                                    user_session_id[1], r.ret),
                        user_session_id[1],
                        [satellite_id |-> r.self[i].satellite_id,
                         cache_size |-> Len(r.self[i].cache),
                         cache_capacity |-> r.self[i].cache_size])
                 ELSE collaboration_manager
  /\ clock' = clock + 1
  /\ UNCHANGED <<simulation_state, db, kind, policy, touch, calls, node,
                 metrics>>

NextCollaboration ==
  \E i \in 1..Len(constellation.satellites), content_id \in FleetIds,
     user_id \in UserIds :
    CollaborationRequest(i, content_id, user_id)

SpecCollaboration == InitCollaboration /\ [][NextCollaboration]_vars

\* the requests of a session's history that the satellite served as a hit
served_as_hit(session) ==
  Cardinality({n \in 1..Len(session.request_history) :
                 session.request_history[n].status
                   \in {"Hit", "Neighbor Hit"}})

\* C39: in every collaboration session, after any sequence of add_request
\* calls, total_requests == cache_hits + cache_misses ==
\* len(request_history), and cache_hits is the number of recorded requests
\* that the satellite served as a hit, with status Hit or Neighbor Hit.
C39_SessionCountsHits ==
  \A session_id \in DOMAIN collaboration_manager.active_sessions :
    \A session \in {collaboration_manager.active_sessions[session_id]} :
      /\ session.performance_metrics.total_requests
           = session.performance_metrics.cache_hits
               + session.performance_metrics.cache_misses
      /\ session.performance_metrics.total_requests
           = Len(session.request_history)
      /\ session.performance_metrics.cache_hits = served_as_hit(session)

\* --------------------------------------------------------- base Satellite
\* enhanced_satellite_cdn.Satellite keeps its LRU cache inline, an
\* OrderedDict from content id to Content, here the sequence of its
\* entries from the least recently used to the most recently used.
Satellite_request_content_off_by_one(self, content_id, content, user_id, current_time) ==
  LET item == [content_id |-> content_id, content |-> content]
      hit == content_id \in od_keys(self.cache)
      full == Len(self.cache) > self.cache_size
      victim == IF ~hit /\ full /\ self.cache # <<>>
                THEN <<Head(self.cache)>> ELSE <<>>
      after == IF hit
               THEN od_move_to_end(self.cache,
                                   od_getitem(self.cache, content_id))
               ELSE IF full THEN Append(Tail(self.cache), item)
               ELSE Append(self.cache, item)
      counted == [self EXCEPT
                    !.total_requests = @ + 1,
                    !.cache_hits = @ + (IF hit THEN 1 ELSE 0),
                    !.cache_misses = @ + (IF hit THEN 0 ELSE 1)]
  IN IF ~hit /\ full /\ self.cache = <<>>
     THEN \* popitem on an empty OrderedDict
          Result(counted, <<>>, <<>>, "KeyError")
     ELSE LET log_entry ==
                [timestamp |-> current_time,
                 user_id |-> user_id,
                 content_id |-> content_id,
                 content_size |-> Content_size(content),
                 status |-> IF hit THEN "Hit" ELSE "Miss",
                 delivery_source |-> IF hit THEN "Satellite Cache"
                                     ELSE "Ground Station",
                 cache_size |-> Len(after),
                 cache_utilization |-> <<Len(after), self.cache_size>>,
                 hit_rate |-> <<counted.cache_hits, counted.total_requests>>,
                 total_requests |-> counted.total_requests,
                 cache_hits |-> counted.cache_hits,
                 cache_misses |-> counted.cache_misses]
          IN Result([counted EXCEPT
                       !.cache = after,
                       !.cache_evictions =
                         @ + (IF victim = <<>> THEN 0 ELSE 1),
                       !.total_content_delivered =
                         @ + Content_size(content),
                       !.request_log = Append(@, log_entry)],
                    log_entry, victim, None)

Satellite_request_content_no_move(self, content_id, content, user_id, current_time) ==
  LET item == [content_id |-> content_id, content |-> content]
      hit == content_id \in od_keys(self.cache)
      full == Len(self.cache) >= self.cache_size
      victim == IF ~hit /\ full /\ self.cache # <<>>
                THEN <<Head(self.cache)>> ELSE <<>>
      after == IF hit
               THEN self.cache
               ELSE IF full THEN Append(Tail(self.cache), item)
               ELSE Append(self.cache, item)
      counted == [self EXCEPT
                    !.total_requests = @ + 1,
                    !.cache_hits = @ + (IF hit THEN 1 ELSE 0),
                    !.cache_misses = @ + (IF hit THEN 0 ELSE 1)]
  IN IF ~hit /\ full /\ self.cache = <<>>
     THEN \* popitem on an empty OrderedDict
          Result(counted, <<>>, <<>>, "KeyError")
     ELSE LET log_entry ==
                [timestamp |-> current_time,
                 user_id |-> user_id,
                 content_id |-> content_id,
                 content_size |-> Content_size(content),
                 status |-> IF hit THEN "Hit" ELSE "Miss",
                 delivery_source |-> IF hit THEN "Satellite Cache"
                                     ELSE "Ground Station",
                 cache_size |-> Len(after),
                 cache_utilization |-> <<Len(after), self.cache_size>>,
                 hit_rate |-> <<counted.cache_hits, counted.total_requests>>,
                 total_requests |-> counted.total_requests,
                 cache_hits |-> counted.cache_hits,
                 cache_misses |-> counted.cache_misses]
          IN Result([counted EXCEPT
                       !.cache = after,
                       !.cache_evictions =
                         @ + (IF victim = <<>> THEN 0 ELSE 1),
                       !.total_content_delivered =
                         @ + Content_size(content),
                       !.request_log = Append(@, log_entry)],
                    log_entry, victim, None)

Satellite_init(cache_size) ==
  [cache_size |-> cache_size,
   cache |-> <<>>,
   total_requests |-> 0,
   cache_hits |-> 0,
   cache_misses |-> 0,
   total_content_delivered |-> 0,
   cache_evictions |-> 0,
   request_log |-> <<>>]

\* Satellite.request_content(content_id, content, user_id) at time
\* env.now = current_time
Satellite_request_content(self, content_id, content, user_id, current_time) ==
  LET item == [content_id |-> content_id, content |-> content]
      hit == content_id \in od_keys(self.cache)
      full == Len(self.cache) >= self.cache_size
      victim == IF ~hit /\ full /\ self.cache # <<>>
                THEN <<Head(self.cache)>> ELSE <<>>
      after == IF hit
               THEN od_move_to_end(self.cache,
                                   od_getitem(self.cache, content_id))
               ELSE IF full THEN Append(Tail(self.cache), item)
               ELSE Append(self.cache, item)
      counted == [self EXCEPT
                    !.total_requests = @ + 1,
                    !.cache_hits = @ + (IF hit THEN 1 ELSE 0),
                    !.cache_misses = @ + (IF hit THEN 0 ELSE 1)]
  IN IF ~hit /\ full /\ self.cache = <<>>
     THEN \* popitem on an empty OrderedDict
          Result(counted, <<>>, <<>>, "KeyError")
     ELSE LET log_entry ==
                [timestamp |-> current_time,
                 user_id |-> user_id,
                 content_id |-> content_id,
                 content_size |-> Content_size(content),
                 status |-> IF hit THEN "Hit" ELSE "Miss",
                 delivery_source |-> IF hit THEN "Satellite Cache"
                                     ELSE "Ground Station",
                 cache_size |-> Len(after),
                 cache_utilization |-> <<Len(after), self.cache_size>>,
                 hit_rate |-> <<counted.cache_hits, counted.total_requests>>,
                 total_requests |-> counted.total_requests,
                 cache_hits |-> counted.cache_hits,
                 cache_misses |-> counted.cache_misses]
          IN Result([counted EXCEPT
                       !.cache = after,
                       !.cache_evictions =
                         @ + (IF victim = <<>> THEN 0 ELSE 1),
                       !.total_content_delivered =
                         @ + Content_size(content),
                       !.request_log = Append(@, log_entry)],
                    log_entry, victim, None)

\* The same requests are made of a base Satellite (simulation_state), of a
\* SatelliteNode (node) and of a ConstellationSatellite with an LRUCache
\* that has no neighbor (constellation), all three of the same cache
\* size; `last` holds the three results of the last request.
InitLockstep ==
  /\ kind = "LRU"
  /\ \E cache_size \in 1..MaxCacheSize :
       /\ simulation_state = [satellite |-> Satellite_init(cache_size)]
       /\ node = SatelliteNode_init("LEO-1", cache_size)
       /\ constellation =
            [env_now |-> 0,
             config |-> [cache_size |-> cache_size],
             satellites |->
               <<ConstellationSatellite_init(
                   cache_size, LeoIds[1],
                   leo_position(0, 1, LeoAltitudes[1]), kind)>>]
  /\ last = [op |-> "init", content_id |-> None, present |-> FALSE,
             exc |-> None, base |-> <<>>, ntn |-> <<>>,
             constellation |-> <<>>]
  /\ collaboration_manager = None
  /\ db = None
  /\ policy = None
  /\ clock = 0
  /\ touch = EmptyDict
  /\ calls = 0
  /\ metrics = None

\* one request for an id of the catalog, made of each of the three
RequestContent(content_id, user_id) ==
  /\ last.exc = None
  /\ simulation_state.satellite.total_requests < MaxRequests
  /\ \E base \in {Satellite_request_content(
                    simulation_state.satellite, content_id,
                    Content(get_content_by_id(content_id)[1]), user_id,
                    constellation.env_now)} :
     \E ntn \in {SatelliteNode_request_content(node, content_id, user_id)} :
     \E multi \in {ConstellationSatellite_request_content(
                     constellation.satellites, 1, content_id,
                     Content(get_content_by_id(content_id)[1]), user_id,
                     clock + 1, constellation.env_now)} :
       /\ simulation_state' = [simulation_state EXCEPT
                                 !.satellite = base.self]
       /\ node' = ntn.self
       /\ constellation' = [constellation EXCEPT !.satellites = multi.self]
       /\ last' = [op |-> "request_content",
                   content_id |-> content_id,
                   present |-> content_id
                                 \in od_keys(simulation_state.satellite.cache),
                   exc |-> IF base.exc # None THEN base.exc
                           ELSE IF ntn.exc # None THEN ntn.exc
                           ELSE multi.exc,
                   base |-> <<base.ret>>,
                   ntn |-> <<ntn.ret>>,
                   constellation |-> <<multi.ret>>]
  /\ clock' = clock + 1
  /\ UNCHANGED <<collaboration_manager, db, kind, policy, touch, calls,
                 metrics>>

NextLockstep ==
  \E content_id \in CatalogIds, user_id \in UserIds :
    RequestContent(content_id, user_id)

SpecLockstep == InitLockstep /\ [][NextLockstep]_vars

\* the content ids of an OrderedDict in its order, the next victim first
order(od) == [n \in 1..Len(od) |-> od[n].content_id]

\* C31: a request of the base Satellite for an id that is not cached is a
\* Miss and caches the id, a request for a cached id and so a request for
\* the same id directly after is a Hit; in every state total_requests ==
\* cache_hits + cache_misses and len(cache) <= cache_size (cache_size >= 1).
C31_MissThenHit ==
  /\ simulation_state.satellite.total_requests
       = simulation_state.satellite.cache_hits
           + simulation_state.satellite.cache_misses
  /\ Len(simulation_state.satellite.cache)
       <= simulation_state.satellite.cache_size
  /\ [][last'.op = "request_content" =>
          \A before \in {simulation_state.satellite} :
          \A after \in {simulation_state'.satellite} :
            /\ after.total_requests = after.cache_hits + after.cache_misses
            /\ Len(after.cache) <= after.cache_size
            /\ last'.content_id \in od_keys(after.cache)
            /\ last'.base[1].status =
                 IF last'.content_id \in od_keys(before.cache)
                 THEN "Hit" ELSE "Miss"
            /\ last.op = "request_content"
                 /\ last.content_id = last'.content_id
                 => last'.base[1].status = "Hit"
            /\ last'.base[1].status = "Hit" =>
                 /\ after.cache_hits = before.cache_hits + 1
                 /\ after.cache_misses = before.cache_misses
            /\ last'.base[1].status = "Miss" =>
                 /\ after.cache_misses = before.cache_misses + 1
                 /\ after.cache_hits = before.cache_hits]_vars

\* a Miss of an id that evicted another, then a Hit of the same id
C31_Witness ==
  /\ last.op = "request_content"
  /\ last.base[1].status = "Hit"
  /\ simulation_state.satellite.request_log[
       Len(simulation_state.satellite.request_log) - 1].status = "Miss"
  /\ simulation_state.satellite.request_log[
       Len(simulation_state.satellite.request_log) - 1].content_id
       = last.content_id
  /\ simulation_state.satellite.cache_evictions > 0
  /\ Len(simulation_state.satellite.cache)
       = simulation_state.satellite.cache_size

\* C37: for every sequence of requests for ids of the catalog the base
\* Satellite, the LRUCache of ntn_network_simulation driven by
\* SatelliteNode and the LRUCache of advanced_caching driven by
\* ConstellationSatellite.request_content give the same hit or miss for
\* each request, hold the same ids in the same eviction order and have
\* counted the same number of evictions.
C37_ThreeLRUsInStep ==
  \A base \in {simulation_state.satellite} :
  \A ntn \in {node.cache} :
  \A multi \in {constellation.satellites[1]} :
    /\ last.op = "request_content" =>
         /\ last.base[1].status \in {"Hit", "Miss"}
         /\ last.ntn[1].status \in {"HIT", "MISS"}
         /\ last.constellation[1].status \in {"Hit", "Miss"}
         /\ (last.base[1].status = "Hit") = (last.ntn[1].status = "HIT")
         /\ last.base[1].status = last.constellation[1].status
    /\ order(base.cache) = order(ntn.cache)
    /\ order(base.cache) = order(multi.cache_policy.cache)
    /\ base.cache_evictions = ntn.evictions
    /\ base.cache_evictions = multi.cache_policy.evictions
    /\ base.cache_evictions = multi.cache_evictions
    /\ base.cache_hits = ntn.hits
    /\ base.cache_hits = multi.cache_hits

\* the three have evicted twice and a hit has changed the eviction order
C37_Witness ==
  /\ last.op = "request_content"
  /\ last.base[1].status = "Hit"
  /\ simulation_state.satellite.cache_evictions = 2
  /\ node.cache.evictions = 2
  /\ constellation.satellites[1].cache_policy.evictions = 2
  /\ Len(node.cache.cache) > 1
  /\ order(node.cache.cache)[Len(node.cache.cache)] = last.content_id
  /\ last.present

====
